---------------------------- MODULE Spec2Model ----------------------------
(***************************************************************************)
(* A model of the research synthesis back end (backend/src).               *)
(*                                                                         *)
(* Spec      the pro-mode request: the API handler, the orchestrator       *)
(*           ProResearchService.generate_comprehensive_report, its fan-out *)
(*           of sub-queries under an asyncio.Semaphore, compilation and    *)
(*           the summarize-then-compile degrade path.                      *)
(* SpecEmbed AIService._get_all_embeddings: one retried embed call per     *)
(*           text under a semaphore, gathered and sorted by index.         *)
(*                                                                         *)
(* Scheduling is asyncio's: one coroutine step at a time, a step running   *)
(* from one await that suspends to the next.  Tasks created by gather are  *)
(* started in creation order and Semaphore waiters are woken first in,     *)
(* first out.                                                              *)
(***************************************************************************)
EXTENDS Integers, Sequences, FiniteSets, TLC

\* ------------------------------------------------------------------ bounds

\* The largest number of items the planner model's response parses into.
MaxReturned == 5

\* The largest number of texts handed to _get_all_embeddings.
MaxTexts == 3

\* ------------------------------------------------------- program constants

\* ProResearchService.__init__(max_questions=4), ResearchPlanner.__init__
DefaultMaxQuestions == 4

\* SearchRequest.max_questions: Field(4, ge=2, le=8)
MinRequestQuestions == 2

MaxRequestQuestions == 8

\* ProResearchService.max_concurrent_requests
max_concurrent_requests == 3

\* AIService.max_concurrent_requests
embedding_concurrent_requests == 10

\* @retry(stop=stop_after_attempt(3))
MaxAttempts == 3

\* content.split('.')[:3] in _prepare_compilation_content
KeySentences == 3

\* ------------------------------------------------------------------ helpers

Min(a, b) == IF a < b THEN a ELSE b

Last(s) == s[Len(s)]

Range(s) == {s[j] : j \in 1..Len(s)}

\* The 0-based task indices enumerate() gives to n items.
Indices(n) == 0..(n - 1)

\* The sequence 0, 1, ..., n-1: the order in which gather starts its tasks.
RECURSIVE UpTo(_)
UpTo(n) == IF n = 0 THEN <<>> ELSE Append(UpTo(n - 1), n - 1)

\* The values of request.max_questions tried: the least and the greatest the
\* validation admits, and the default.
RequestQuestions == {MinRequestQuestions, DefaultMaxQuestions, MaxRequestQuestions}

\* The sub-queries the planner response parses into: k distinct queries 1..k.
ParsedQueries(k) == [j \in 1..k |-> j]

\* A planner that returns every parsed query.
KeepAll(queries, max_questions) == queries

\* search_queries[:self.max_questions]
Truncate(queries, max_questions) == SubSeq(queries, 1, Min(Len(queries), max_questions))

\* ------------------------------------------------- provider texts and errors

\* The text the generation provider returns for a sub-query: four sentences.
ReportText(q) == << <<"report", q, 1>>, <<"report", q, 2>>, <<"report", q, 3>>, <<"report", q, 4>> >>

\* The text the provider returns when asked to summarize a report.
SummaryText(content) == << <<"summary", content[1][2], 1>> >>

\* The error texts a failing compilation call may carry.
ErrorTexts == {"This model's maximum context length is 8192 tokens",
               "MAXIMUM CONTEXT LENGTH EXCEEDED",
               "Rate limit reached"}

\* str(e).lower()
Lower(text) == IF text = "MAXIMUM CONTEXT LENGTH EXCEEDED"
               THEN "maximum context length exceeded"
               ELSE IF text = "This model's maximum context length is 8192 tokens"
               THEN "this model's maximum context length is 8192 tokens"
               ELSE IF text = "Rate limit reached" THEN "rate limit reached"
               ELSE text

\* The lower-case texts that contain the words "maximum context length".
ContainsMaximumContextLength(lowered) ==
    lowered \in {"maximum context length exceeded",
                 "this model's maximum context length is 8192 tokens"}

\* The test without .lower(): "maximum context length" in str(e)
IsContextLengthErrorCaseSensitive(text) == ContainsMaximumContextLength(text)

\* "maximum context length" in str(e).lower()
IsContextLengthError(text) == ContainsMaximumContextLength(Lower(text))

\* The error tenacity raises when the last attempt of a retried call fails.
RetryErrorText == "RetryError"

PlannerErrorText == "planner call failed"

SummaryErrorText == "summarization call failed"

\* No report: the value of a result slot that has not been filled.
NoReport == [query |-> 0, content |-> <<>>]

\* The first three sentences of a report's content.
KeyFindings(content) == SubSeq(content, 1, Min(KeySentences, Len(content)))

\* _prepare_compilation_content: one section per report, in order.
PrepareCompilationContent(reports) ==
    [j \in 1..Len(reports) |-> [query |-> reports[j].query,
                                findings |-> KeyFindings(reports[j].content)]]

\* The text the provider returns for a compilation prompt.
CompilationText(content) == <<"compiled", content>>

\* The progress of the fan-out spread over the whole scale.
ProgressOfHundred(i, total) == 10 + ((i + 1) * 100) \div total

\* progress = 10 + (i + 1) * 70 // total_queries
Progress(i, total) == 10 + ((i + 1) * 70) \div total


\* ---------------------------------------------------------------- variables

VARIABLES
    \* the API request and the services built for it
    request_max_questions,   \* request.max_questions
    service_max_questions,   \* pro_service.max_questions (0: attribute not set)
    planner_max_questions,   \* pro_service.planner.max_questions
    has_callback,            \* progress_callback is not None
    \* generate_comprehensive_report
    pc,                      \* where the orchestrator coroutine stands
    parsed,                  \* what _parse_research_plan returned
    search_queries,          \* the research plan
    events,                  \* the progress_callback invocations, in call order
    task_pc,                 \* where each process_query task stands
    attempt,                 \* the attempt number of a task's retried call
    semaphore,               \* the value of the fan-out semaphore
    waiters,                 \* tasks waiting to enter the semaphore, first first
    query_emb_semaphore,     \* the value of the Semaphore(10) of each task's embed call
    active_queries,          \* the set active_queries
    results,                 \* gather's result slot of each task
    gather_exception,        \* the exception set on gather's future ("": none)
    overtaken,               \* a task has returned before one started earlier
    sub_reports,             \* what gather returned
    compilations,            \* the _generate_compilation calls, in call order
    final_report,            \* what _compile_final_report returned
    \* _summarize_reports
    sum_pc,                  \* where each summarize_report task stands
    sum_semaphore,
    sum_waiters,
    sum_calls,               \* the provider calls made for each report
    sum_results,
    sum_exception,
    summarized_reports,
    \* the outcome of the request
    error,                   \* the exception raised to the caller ("": none)
    result,                  \* the dict returned to the caller
    \* _get_all_embeddings
    texts,                   \* the argument
    emb_pc,                  \* where the _get_all_embeddings coroutine stands
    text_pc,                 \* where each process_text task stands
    text_attempt,
    emb_semaphore,
    emb_waiters,
    emb_results,             \* gather's slots: (index, embedding) pairs
    emb_exception,
    emb_done_order,
    embeddings               \* the list returned

requestVars == <<request_max_questions, service_max_questions, planner_max_questions, has_callback>>

planVars == <<parsed, search_queries>>

fanVars == <<task_pc, attempt, semaphore, waiters, query_emb_semaphore, active_queries, results,
             gather_exception, overtaken>>

compileVars == <<sub_reports, compilations, final_report>>

sumVars == <<sum_pc, sum_semaphore, sum_waiters, sum_calls, sum_results, sum_exception, summarized_reports>>

outVars == <<error, result>>

proVars == <<requestVars, pc, planVars, events, fanVars, compileVars, sumVars, outVars>>

embVars == <<texts, emb_pc, text_pc, text_attempt, emb_semaphore, emb_waiters, emb_results, emb_exception, emb_done_order, embeddings>>

VARIABLES
    \* generate_report
    query,                   \* the argument query
    chunks,                  \* the argument chunks
    max_input_tokens,        \* Config.MAX_INPUT_TOKENS
    max_chunks,              \* self.max_chunks
    rpt_pc,                  \* where the generate_report coroutine stands
    all_texts,               \* the texts handed to _get_all_embeddings
    ranked_indices,          \* np.argsort(similarities)[::-1]
    ranked_chunks,
    used_chunks,
    context,
    prompt,
    gen_attempt,             \* tenacity's attempt number of _generate_with_gpt4
    provider_calls,          \* the chat.completions.create calls made
    gen_outcomes,            \* how each of these calls ended, in call order
    response,                \* what generate_report returned
    rpt_error,               \* the exception generate_report raised ("": none)
    sources,                 \* the sources of generate_report_with_sources
    provider_error           \* the error of the last failed provider call ("": none)

rptVars == <<query, chunks, max_input_tokens, max_chunks, rpt_pc, all_texts, ranked_indices,
             ranked_chunks, used_chunks, context, prompt, gen_attempt, provider_calls,
             gen_outcomes, response, rpt_error, sources, provider_error>>

VARIABLES
    \* ContentProcessor
    contents,                \* the argument of process_contents
    chunk_size,              \* self.chunk_size
    min_chunk_length,        \* self.min_chunk_length
    chunk_overlap,           \* self.chunk_overlap
    chk_pc,                  \* "called", "split" or "returned" ("idle": no call)
    text_chunks,             \* split_text_into_chunks of each document's content
    processed_contents       \* what process_contents returned

chunkVars == <<contents, chunk_size, min_chunk_length, chunk_overlap, chk_pc, text_chunks,
               processed_contents>>

VARIABLES
    \* services/cache_service.py: CacheService
    redis,                   \* the entries of the Redis database: key and value
    cache_calls,             \* the get_report and set_report calls made, in order
    cache_pc                 \* "ready" ("idle": no cache in use)

cacheVars == <<redis, cache_calls, cache_pc>>

VARIABLES
    \* concurrent generate_comprehensive_report calls
    run_semaphore,           \* the semaphore each call created
    run_task_pc              \* where each process_query task of each call stands

runVars == <<run_semaphore, run_task_pc>>

VARIABLES
    \* main.py: generate_research_stream
    str_pc,                  \* where event_generator stands
    research_task,           \* the task running generate_comprehensive_report
    stream_queries,          \* the length of its research plan
    put_count,               \* the progress events it has put on the queue
    progress_queue,
    str_item,                \* the (phase, progress) taken off the queue
    sent                     \* the events yielded to the client

streamVars == <<str_pc, research_task, stream_queries, put_count, progress_queue, str_item, sent>>

VARIABLES
    \* main.py: generate_research in standard mode
    std_pc,                  \* where the handler stands
    std_results,             \* the search results: what extracting each link gives
    std_max_results,         \* request.max_results
    std_contents,            \* the results content was extracted from
    std_exception,           \* the exception raised inside the try ("": none)
    std_status               \* the HTTP status of the answer (0: none yet)

stdVars == <<std_pc, std_results, std_max_results, std_contents, std_exception, std_status>>

vars == <<proVars, embVars, rptVars, chunkVars, cacheVars, runVars, streamVars, stdVars>>

\* The task slots of the model: one per query the planner can return.
TaskIds == Indices(MaxReturned)

TextIds == Indices(MaxTexts)

\* The texts embedded, and the vector the embedding provider returns for each.
Texts == {"a", "b", "c"}

ProviderEmbedding(text) == IF text = "a" THEN <<1, 0>>
                           ELSE IF text = "b" THEN <<0, 1>>
                           ELSE IF text = "z" THEN <<0, 0>>
                           ELSE <<1, 1>>

\* No (index, embedding) pair: the value of a slot that has not been filled.
NoPair == <<0 - 1, <<>>>>

NoResult == [final_report |-> <<>>, sub_reports |-> <<>>, research_plan |-> <<>>]

total_queries == Len(search_queries)

\* ------------------------------------------------------------ initial states

\* get_pro_research_service() builds ProResearchService(), whose planner is
\* ResearchPlanner(max_questions=4); nothing has run yet.
ProFresh ==
    /\ service_max_questions = 0
    /\ planner_max_questions = DefaultMaxQuestions
    /\ parsed = <<>>
    /\ search_queries = <<>>
    /\ events = <<>>
    /\ task_pc = [i \in TaskIds |-> "none"]
    /\ attempt = [i \in TaskIds |-> 0]
    /\ semaphore = 0
    /\ waiters = <<>>
    /\ query_emb_semaphore = [i \in TaskIds |-> 0]
    /\ active_queries = {}
    /\ results = [i \in TaskIds |-> NoReport]
    /\ gather_exception = ""
    /\ overtaken = FALSE
    /\ sub_reports = <<>>
    /\ compilations = <<>>
    /\ final_report = <<>>
    /\ sum_pc = [i \in TaskIds |-> "none"]
    /\ sum_semaphore = 0
    /\ sum_waiters = <<>>
    /\ sum_calls = [i \in TaskIds |-> 0]
    /\ sum_results = [i \in TaskIds |-> NoReport]
    /\ sum_exception = ""
    /\ summarized_reports = <<>>
    /\ error = ""
    /\ result = NoResult

\* A pro-mode request arrives: its max_questions is validated, and the
\* handler passes a progress callback or the orchestrator is called without.
ProInit ==
    /\ request_max_questions \in RequestQuestions
    /\ has_callback \in BOOLEAN
    /\ pc = "request"
    /\ ProFresh

\* No pro-mode request is running.
ProIdle ==
    /\ request_max_questions = DefaultMaxQuestions
    /\ has_callback = FALSE
    /\ pc = "idle"
    /\ ProFresh

\* The state of _get_all_embeddings before it starts its tasks.
EmbFresh ==
    /\ text_pc = [i \in TextIds |-> "none"]
    /\ text_attempt = [i \in TextIds |-> 0]
    /\ emb_semaphore = 0
    /\ emb_waiters = <<>>
    /\ emb_results = [i \in TextIds |-> NoPair]
    /\ emb_exception = ""
    /\ emb_done_order = <<>>
    /\ embeddings = <<>>

\* _get_all_embeddings is not running.
EmbIdle ==
    /\ texts = <<>>
    /\ emb_pc = "idle"
    /\ EmbFresh

\* _get_all_embeddings(texts) is called with up to MaxTexts texts.
EmbInit ==
    /\ texts \in UNION {[1..n -> Texts] : n \in 0..MaxTexts}
    /\ emb_pc = "called"
    /\ EmbFresh

\* ------------------------------------------- generate_report: its inputs

\* The longest chunk list handed to generate_report.
MaxChunks == 3

\* Config.MAX_INPUT_TOKENS and Config.MAX_CHUNKS_FOR_REPORT, by default.
MAX_INPUT_TOKENS == 128000

MAX_CHUNKS_FOR_REPORT == 50

\* _build_context: system_prompt_tokens, the buffer for the query and other
\* text, and the characters counted as one token.
system_prompt_tokens == 100

BufferTokens == 1000

CharsPerToken == 4

\* The values MAX_INPUT_TOKENS is configured with: the default, and values
\* whose budget (the value less 1100) is below zero, or holds one, two or
\* three of the chunks below.
ConfiguredInputTokens == {1099, 1107, 1114, 1125, MAX_INPUT_TOKENS}

\* The values MAX_CHUNKS_FOR_REPORT is configured with.
ConfiguredMaxChunks == {2, MAX_CHUNKS_FOR_REPORT}

\* The chunks the content processor hands over: two of the same content
\* from different pages, a short one and one with a long title.
ChunkPool ==
    { [url |-> "u1", title |-> "T", content |-> "a"],
      [url |-> "u2", title |-> "T", content |-> "a"],
      [url |-> "u3", title |-> "A long title", content |-> "b"],
      [url |-> "u4", title |-> "Tc", content |-> "c"] }

Queries == Texts

\* generate_report has not run.
ReportFresh ==
    /\ all_texts = <<>>
    /\ ranked_indices = <<>>
    /\ ranked_chunks = <<>>
    /\ used_chunks = <<>>
    /\ context = ""
    /\ prompt = ""
    /\ gen_attempt = 0
    /\ provider_calls = 0
    /\ gen_outcomes = <<>>
    /\ response = ""
    /\ rpt_error = ""
    /\ sources = <<>>
    /\ provider_error = ""

\* No standard-mode generate_report call is running.
ReportIdle ==
    /\ query = ""
    /\ chunks = <<>>
    /\ max_input_tokens = MAX_INPUT_TOKENS
    /\ max_chunks = MAX_CHUNKS_FOR_REPORT
    /\ rpt_pc = "idle"
    /\ ReportFresh

\* generate_report(query, chunks) is called with up to MaxChunks chunks,
\* under a configuration read from the environment.
ReportInit ==
    /\ query \in Queries
    /\ chunks \in UNION {[1..n -> ChunkPool] : n \in 0..MaxChunks}
    /\ max_input_tokens \in ConfiguredInputTokens
    /\ max_chunks \in ConfiguredMaxChunks
    /\ rpt_pc = "called"
    /\ ReportFresh

\* Config.CHUNK_SIZE, Config.CHUNK_OVERLAP and Config.MIN_CHUNK_LENGTH, by
\* default.
CHUNK_SIZE == 1000

CHUNK_OVERLAP == 100

MIN_CHUNK_LENGTH == 100

\* No ContentProcessor call is running.
ChunkIdle ==
    /\ contents = <<>>
    /\ chunk_size = CHUNK_SIZE
    /\ min_chunk_length = MIN_CHUNK_LENGTH
    /\ chunk_overlap = CHUNK_OVERLAP
    /\ chk_pc = "idle"
    /\ text_chunks = <<>>
    /\ processed_contents = <<>>

\* No CacheService is in use.
CacheIdle ==
    /\ redis = {}
    /\ cache_calls = <<>>
    /\ cache_pc = "idle"

\* The concurrent requests and the sub-queries of each.
MaxRuns == 2

MaxRunQueries == 4

Runs == 1..MaxRuns

\* No generate_comprehensive_report call has made its semaphore.
RunIdle ==
    /\ run_semaphore = [r \in Runs |-> 0]
    /\ run_task_pc = [r \in Runs |-> [i \in Indices(MaxRunQueries) |-> "none"]]

\* No streaming request is served.
StreamIdle ==
    /\ str_pc = "idle"
    /\ research_task = "none"
    /\ stream_queries = 0
    /\ put_count = 0
    /\ progress_queue = <<>>
    /\ str_item = <<>>
    /\ sent = <<>>

\* No standard-mode request is served.
StandardIdle ==
    /\ std_pc = "idle"
    /\ std_results = <<>>
    /\ std_max_results = 0
    /\ std_contents = <<>>
    /\ std_exception = ""
    /\ std_status = 0

\* The services this specification leaves alone.
OthersIdle == ChunkIdle /\ CacheIdle /\ RunIdle /\ StreamIdle /\ StandardIdle

Init == ProInit /\ EmbIdle /\ ReportIdle /\ OthersIdle

\* -------------------------------------------------- the asyncio primitives

\* A semaphore that never makes a task wait.
CanAcquireAlways(value) == TRUE

\* Semaphore.acquire returns without waiting while the value is positive.
CanAcquire(value) == value > 0

\* A wait that ends with the first task that returns.
FirstReturned(state, n) == n = 0 \/ \E i \in Indices(n) : state[i] = "done"

\* A gather that collects exceptions as results (return_exceptions=True).
AllFinished(state, n) == \A i \in Indices(n) : state[i] \in {"done", "failed"}

\* asyncio.gather without return_exceptions: its result is ready when every
\* task has returned, and it holds one slot per task, in task order.
AllReturned(state, n) == \A i \in Indices(n) : state[i] = "done"

GatherResults(slots, n) == [j \in 1..n |-> slots[j - 1]]

\* Results collected in the order of arrival: the next free slot.
ArrivalSlot(i, finished) == finished

\* The slot that receives the result of task i, whatever the number of tasks
\* that finished before it.
GatherSlot(i, finished) == i

\* An invocation of progress_callback(message, percent); the message of the
\* execution phase lists the active queries.
Event(phase, percent, active) == [phase |-> phase, percent |-> percent, active |-> active]

\* ------------------------------------------- main.py: generate_research

\* if request.is_pro_mode: pro_service.max_questions = request.max_questions
HandleRequest ==
    /\ pc = "request"
    /\ service_max_questions' = request_max_questions
    /\ pc' = "start"
    /\ UNCHANGED <<request_max_questions, planner_max_questions, has_callback>>
    /\ UNCHANGED <<planVars, events, fanVars, compileVars, sumVars, outVars, embVars, rptVars, chunkVars, cacheVars, runVars, streamVars, stdVars>>

\* ------------------------- generate_comprehensive_report: step 1, the plan

\* await progress_callback("Generating research plan...", 0), then the
\* planner call; without a callback the planner call at once.
StartPlanning ==
    /\ pc = "start"
    /\ IF has_callback
       THEN /\ events' = Append(events, Event("planning", 0, {}))
            /\ pc' = "callback_0"
       ELSE /\ events' = events
            /\ pc' = "planning"
    /\ UNCHANGED <<requestVars, planVars, fanVars, compileVars, sumVars, outVars, embVars, rptVars, chunkVars, cacheVars, runVars, streamVars, stdVars>>

Callback0Returns ==
    /\ pc = "callback_0"
    /\ pc' = "planning"
    /\ UNCHANGED <<requestVars, planVars, events, fanVars, compileVars, sumVars, outVars, embVars, rptVars, chunkVars, cacheVars, runVars, streamVars, stdVars>>

\* generate_research_plan returns: the response parses into k queries, of
\* which the first self.max_questions are kept.
PlannerReturns ==
    /\ pc = "planning"
    /\ \E k \in 0..MaxReturned :
          /\ parsed' = ParsedQueries(k)
          /\ search_queries' = Truncate(ParsedQueries(k), planner_max_questions)
    /\ pc' = "planned"
    /\ UNCHANGED <<requestVars, events, fanVars, compileVars, sumVars, outVars, embVars, rptVars, chunkVars, cacheVars, runVars, streamVars, stdVars>>

\* The planner's provider call fails: logged and raised again, twice.
PlannerFails ==
    /\ pc = "planning"
    /\ pc' = "raised"
    /\ error' = PlannerErrorText
    /\ UNCHANGED <<requestVars, planVars, events, fanVars, compileVars, sumVars, result, embVars, rptVars, chunkVars, cacheVars, runVars, streamVars, stdVars>>

\* await progress_callback("Research plan generated with N queries", 10)
ReportPlan ==
    /\ pc = "planned"
    /\ IF has_callback
       THEN /\ events' = Append(events, Event("planned", 10, {}))
            /\ pc' = "callback_10"
       ELSE /\ events' = events
            /\ pc' = "fanout"
    /\ UNCHANGED <<requestVars, planVars, fanVars, compileVars, sumVars, outVars, embVars, rptVars, chunkVars, cacheVars, runVars, streamVars, stdVars>>

Callback10Returns ==
    /\ pc = "callback_10"
    /\ pc' = "fanout"
    /\ UNCHANGED <<requestVars, planVars, events, fanVars, compileVars, sumVars, outVars, embVars, rptVars, chunkVars, cacheVars, runVars, streamVars, stdVars>>

\* --------------------- generate_comprehensive_report: step 2, the fan-out

\* semaphore = asyncio.Semaphore(3); one process_query task per query;
\* await asyncio.gather(*tasks): the tasks are started in index order.
StartFanout ==
    /\ pc = "fanout"
    /\ semaphore' = max_concurrent_requests
    /\ active_queries' = {}
    /\ waiters' = UpTo(total_queries)
    /\ task_pc' = [i \in TaskIds |-> IF i < total_queries THEN "waiting" ELSE "none"]
    /\ pc' = "gathering"
    /\ UNCHANGED <<attempt, query_emb_semaphore, results, gather_exception, overtaken>>
    /\ UNCHANGED <<requestVars, planVars, events, compileVars, sumVars, outVars, embVars, rptVars, chunkVars, cacheVars, runVars, streamVars, stdVars>>

\* _get_all_embeddings([query]) of task i makes its own Semaphore(10), and
\* the process_text task of its one text enters it.
EnterProcessText(value, i) == [value EXCEPT ![i] = embedding_concurrent_requests - 1]

\* A process_text that never gives its permit back.
KeepProcessText(value, i) == value

\* process_text leaves "async with semaphore" once _get_embedding, with all
\* its attempts, has returned or raised.
LeaveProcessText(value, i) == [value EXCEPT ![i] = value[i] + 1]

\* process_query enters "async with semaphore"; with a callback it joins
\* active_queries and awaits the callback with its progress and the message
\* naming the active queries; without one it goes on to generate_report,
\* which starts with the embedding of the query.
TaskAcquire(i) ==
    /\ task_pc[i] = "waiting"
    /\ waiters # <<>>
    /\ Head(waiters) = i
    /\ CanAcquire(semaphore)
    /\ semaphore' = semaphore - 1
    /\ waiters' = Tail(waiters)
    /\ IF has_callback
       THEN /\ active_queries' = active_queries \cup {i}
            /\ events' = Append(events, Event("researching", Progress(i, total_queries),
                                              active_queries \cup {i}))
            /\ task_pc' = [task_pc EXCEPT ![i] = "callback"]
            /\ attempt' = attempt
            /\ query_emb_semaphore' = query_emb_semaphore
       ELSE /\ active_queries' = active_queries
            /\ events' = events
            /\ task_pc' = [task_pc EXCEPT ![i] = "embedding"]
            /\ attempt' = [attempt EXCEPT ![i] = 1]
            /\ query_emb_semaphore' = EnterProcessText(query_emb_semaphore, i)
    /\ UNCHANGED <<results, gather_exception, overtaken>>
    /\ UNCHANGED <<requestVars, pc, planVars, compileVars, sumVars, outVars, embVars, rptVars, chunkVars, cacheVars, runVars, streamVars, stdVars>>

\* The callback returns: generate_report(search_query, []) starts, and
\* _rerank_chunks_with_embeddings embeds [query] + [].
TaskCallbackReturns(i) ==
    /\ task_pc[i] = "callback"
    /\ task_pc' = [task_pc EXCEPT ![i] = "embedding"]
    /\ attempt' = [attempt EXCEPT ![i] = 1]
    /\ query_emb_semaphore' = EnterProcessText(query_emb_semaphore, i)
    /\ UNCHANGED <<semaphore, waiters, active_queries, results, gather_exception, overtaken>>
    /\ UNCHANGED <<requestVars, pc, planVars, events, compileVars, sumVars, outVars, embVars, rptVars, chunkVars, cacheVars, runVars, streamVars, stdVars>>

\* A process_query that leaves without giving its permit back.
LeaveWithoutRelease(i) ==
    /\ active_queries' = IF has_callback THEN active_queries \ {i} ELSE active_queries
    /\ semaphore' = semaphore

\* A process_query whose "finally" leaves its index in the active set.
LeaveKeepingActive(i) ==
    /\ active_queries' = active_queries
    /\ semaphore' = semaphore + 1

\* The "finally" of process_query and the exit of "async with semaphore".
LeaveSemaphore(i) ==
    /\ active_queries' = IF has_callback THEN active_queries \ {i} ELSE active_queries
    /\ semaphore' = semaphore + 1

\* The task ends with the exception e: gather sets the first one on its future.
TaskRaises(i, e) ==
    /\ task_pc' = [task_pc EXCEPT ![i] = "failed"]
    /\ attempt' = [attempt EXCEPT ![i] = 0]
    /\ gather_exception' = IF gather_exception = "" THEN e ELSE gather_exception
    /\ query_emb_semaphore' = IF task_pc[i] = "embedding"
                              THEN LeaveProcessText(query_emb_semaphore, i)
                              ELSE query_emb_semaphore
    /\ LeaveSemaphore(i)
    /\ UNCHANGED <<waiters, results, overtaken>>

\* A failed attempt of a call under @retry(stop_after_attempt(3)): another
\* attempt, or after the third the error is raised to the task.
AttemptFails(i) ==
    IF attempt[i] < MaxAttempts
    THEN /\ attempt' = [attempt EXCEPT ![i] = attempt[i] + 1]
         /\ UNCHANGED <<task_pc, semaphore, waiters, query_emb_semaphore, active_queries,
                        results, gather_exception, overtaken>>
    ELSE TaskRaises(i, RetryErrorText)

\* _get_embedding: the embeddings call returns; the empty chunk list is
\* ranked, the context is built and _generate_with_gpt4 is called.
EmbeddingSucceeds(i) ==
    /\ task_pc[i] = "embedding"
    /\ task_pc' = [task_pc EXCEPT ![i] = "generating"]
    /\ attempt' = [attempt EXCEPT ![i] = 1]
    /\ query_emb_semaphore' = LeaveProcessText(query_emb_semaphore, i)
    /\ UNCHANGED <<semaphore, waiters, active_queries, results, gather_exception, overtaken>>
    /\ UNCHANGED <<requestVars, pc, planVars, events, compileVars, sumVars, outVars, embVars, rptVars, chunkVars, cacheVars, runVars, streamVars, stdVars>>

EmbeddingFails(i) ==
    /\ task_pc[i] = "embedding"
    /\ AttemptFails(i)
    /\ UNCHANGED <<requestVars, pc, planVars, events, compileVars, sumVars, outVars, embVars, rptVars, chunkVars, cacheVars, runVars, streamVars, stdVars>>

\* The number of process_query tasks that have returned.
TasksFinished == Cardinality({j \in TaskIds : task_pc[j] = "done"})

\* _generate_with_gpt4 returns: process_query returns its sub-report.
GenerationSucceeds(i) ==
    /\ task_pc[i] = "generating"
    /\ task_pc' = [task_pc EXCEPT ![i] = "done"]
    /\ attempt' = [attempt EXCEPT ![i] = 0]
    /\ results' = [results EXCEPT ![GatherSlot(i, TasksFinished)] =
                                         [query |-> search_queries[i + 1],
                                          content |-> ReportText(search_queries[i + 1])]]
    /\ overtaken' = (overtaken \/ \E j \in Indices(i) : task_pc[j] # "done")
    /\ LeaveSemaphore(i)
    /\ UNCHANGED <<waiters, query_emb_semaphore, gather_exception>>
    /\ UNCHANGED <<requestVars, pc, planVars, events, compileVars, sumVars, outVars, embVars, rptVars, chunkVars, cacheVars, runVars, streamVars, stdVars>>

GenerationFails(i) ==
    /\ task_pc[i] = "generating"
    /\ AttemptFails(i)
    /\ UNCHANGED <<requestVars, pc, planVars, events, compileVars, sumVars, outVars, embVars, rptVars, chunkVars, cacheVars, runVars, streamVars, stdVars>>

\* sub_reports = await asyncio.gather(*tasks), every task having returned.
GatherReturns ==
    /\ pc = "gathering"
    /\ AllReturned(task_pc, total_queries)
    /\ sub_reports' = GatherResults(results, total_queries)
    /\ pc' = "gathered"
    /\ UNCHANGED <<compilations, final_report>>
    /\ UNCHANGED <<requestVars, planVars, events, fanVars, sumVars, outVars, embVars, rptVars, chunkVars, cacheVars, runVars, streamVars, stdVars>>

\* A gather that cancels the tasks still pending when it raises.
GatherRaisesCancelling ==
    /\ pc = "gathering"
    /\ gather_exception # ""
    /\ error' = gather_exception
    /\ pc' = "raised"
    /\ task_pc' = [i \in TaskIds |-> IF task_pc[i] \in {"none", "done"} THEN task_pc[i]
                                      ELSE "failed"]
    /\ attempt' = [i \in TaskIds |-> 0]
    /\ waiters' = <<>>
    /\ active_queries' = {}
    /\ semaphore' = max_concurrent_requests
    /\ UNCHANGED <<query_emb_semaphore, results, gather_exception, overtaken>>
    /\ UNCHANGED <<requestVars, planVars, events, compileVars, sumVars, result, embVars, rptVars, chunkVars, cacheVars, runVars, streamVars, stdVars>>

\* await asyncio.gather(*tasks) raises the first exception of a task; the
\* other tasks are left running.
GatherRaises ==
    /\ pc = "gathering"
    /\ gather_exception # ""
    /\ error' = gather_exception
    /\ pc' = "raised"
    /\ UNCHANGED <<requestVars, planVars, events, fanVars, compileVars, sumVars, result, embVars, rptVars, chunkVars, cacheVars, runVars, streamVars, stdVars>>

\* ------------------ generate_comprehensive_report: step 3, the compilation

\* await progress_callback("Compiling final report...", 80)
StartCompiling ==
    /\ pc = "gathered"
    /\ IF has_callback
       THEN /\ events' = Append(events, Event("compiling", 80, {}))
            /\ pc' = "callback_80"
       ELSE /\ events' = events
            /\ pc' = "compile"
    /\ UNCHANGED <<requestVars, planVars, fanVars, compileVars, sumVars, outVars, embVars, rptVars, chunkVars, cacheVars, runVars, streamVars, stdVars>>

Callback80Returns ==
    /\ pc = "callback_80"
    /\ pc' = "compile"
    /\ UNCHANGED <<requestVars, planVars, events, fanVars, compileVars, sumVars, outVars, embVars, rptVars, chunkVars, cacheVars, runVars, streamVars, stdVars>>

\* A call of _generate_compilation with a prompt, awaiting the provider.
Compilation(content) == [content |-> content, outcome |-> "pending"]

\* _compile_final_report: the prompt is prepared from the sub-reports and
\* _generate_compilation is called.
CallCompilation ==
    /\ pc = "compile"
    /\ compilations' = Append(compilations, Compilation(PrepareCompilationContent(sub_reports)))
    /\ pc' = "compiling"
    /\ UNCHANGED <<sub_reports, final_report>>
    /\ UNCHANGED <<requestVars, planVars, events, fanVars, sumVars, outVars, embVars, rptVars, chunkVars, cacheVars, runVars, streamVars, stdVars>>

\* The compilation call in flight: the last one made.
Compiling == pc \in {"compiling", "compiling_summarized"}

\* The provider answers: _compile_final_report returns the text.
CompilationSucceeds ==
    /\ Compiling
    /\ compilations' = [compilations EXCEPT ![Len(compilations)].outcome = "ok"]
    /\ final_report' = CompilationText(Last(compilations).content)
    /\ pc' = "compiled"
    /\ UNCHANGED sub_reports
    /\ UNCHANGED <<requestVars, planVars, events, fanVars, sumVars, outVars, embVars, rptVars, chunkVars, cacheVars, runVars, streamVars, stdVars>>

\* A recovery that is tried again after every context-length failure.
RecoversFromEvery(call, text) == IsContextLengthError(text)

\* A recovery from any failure of the first call.
RecoversFromAny(call, text) == call = 1

\* The except clause around the first _generate_compilation call: only the
\* call made in the inner try is recovered from, and only for an error whose
\* text has the words; the calls of the except clause are not guarded.
RecoversFrom(call, text) == call = 1 /\ IsContextLengthError(text)

\* The slots and the semaphore of _summarize_reports, one task per report.
StartSummaries ==
    /\ sum_semaphore' = max_concurrent_requests
    /\ sum_waiters' = UpTo(Len(sub_reports))
    /\ sum_pc' = [i \in TaskIds |-> IF i < Len(sub_reports) THEN "waiting" ELSE "none"]
    /\ sum_exception' = ""
    /\ UNCHANGED <<sum_calls, sum_results, summarized_reports>>

\* The provider call of _generate_compilation fails with the error text e:
\* the degrade path is taken, or the error is raised to the caller.
CompilationFails ==
    /\ Compiling
    /\ \E e \in ErrorTexts :
          /\ compilations' = [compilations EXCEPT ![Len(compilations)].outcome = e]
          /\ IF RecoversFrom(Len(compilations), e)
             THEN /\ StartSummaries
                  /\ pc' = "summarizing"
                  /\ error' = error
             ELSE /\ pc' = "raised"
                  /\ error' = e
                  /\ UNCHANGED sumVars
    /\ UNCHANGED <<sub_reports, final_report, result>>
    /\ UNCHANGED <<requestVars, planVars, events, fanVars, embVars, rptVars, chunkVars, cacheVars, runVars, streamVars, stdVars>>

\* summarize_report enters "async with semaphore" and calls the provider.
SummaryAcquire(i) ==
    /\ sum_pc[i] = "waiting"
    /\ sum_waiters # <<>>
    /\ Head(sum_waiters) = i
    /\ CanAcquire(sum_semaphore)
    /\ sum_semaphore' = sum_semaphore - 1
    /\ sum_waiters' = Tail(sum_waiters)
    /\ sum_pc' = [sum_pc EXCEPT ![i] = "calling"]
    /\ sum_calls' = [sum_calls EXCEPT ![i] = sum_calls[i] + 1]
    /\ UNCHANGED <<sum_results, sum_exception, summarized_reports>>
    /\ UNCHANGED <<requestVars, pc, planVars, events, fanVars, compileVars, outVars, embVars, rptVars, chunkVars, cacheVars, runVars, streamVars, stdVars>>

\* The number of summarize_report tasks that have returned.
SummariesFinished == Cardinality({j \in TaskIds : sum_pc[j] = "done"})

\* The provider returns the summary: the task returns query and summary.
SummarySucceeds(i) ==
    /\ sum_pc[i] = "calling"
    /\ sum_pc' = [sum_pc EXCEPT ![i] = "done"]
    /\ sum_results' = [sum_results EXCEPT ![GatherSlot(i, SummariesFinished)] =
                          [query |-> sub_reports[i + 1].query,
                           content |-> SummaryText(sub_reports[i + 1].content)]]
    /\ sum_semaphore' = sum_semaphore + 1
    /\ UNCHANGED <<sum_waiters, sum_calls, sum_exception, summarized_reports>>
    /\ UNCHANGED <<requestVars, pc, planVars, events, fanVars, compileVars, outVars, embVars, rptVars, chunkVars, cacheVars, runVars, streamVars, stdVars>>

\* The provider call fails: logged and raised, the task ends with the error.
SummaryFails(i) ==
    /\ sum_pc[i] = "calling"
    /\ sum_pc' = [sum_pc EXCEPT ![i] = "failed"]
    /\ sum_exception' = IF sum_exception = "" THEN SummaryErrorText ELSE sum_exception
    /\ sum_semaphore' = sum_semaphore + 1
    /\ UNCHANGED <<sum_waiters, sum_calls, sum_results, summarized_reports>>
    /\ UNCHANGED <<requestVars, pc, planVars, events, fanVars, compileVars, outVars, embVars, rptVars, chunkVars, cacheVars, runVars, streamVars, stdVars>>

\* _summarize_reports returns; the prompt is prepared from the summaries and
\* _generate_compilation is called again.
SummariesReturn ==
    /\ pc = "summarizing"
    /\ AllReturned(sum_pc, Len(sub_reports))
    /\ summarized_reports' = GatherResults(sum_results, Len(sub_reports))
    /\ compilations' = Append(compilations,
                              Compilation(PrepareCompilationContent(summarized_reports')))
    /\ pc' = "compiling_summarized"
    /\ UNCHANGED <<sum_pc, sum_semaphore, sum_waiters, sum_calls, sum_results, sum_exception>>
    /\ UNCHANGED <<sub_reports, final_report>>
    /\ UNCHANGED <<requestVars, planVars, events, fanVars, outVars, embVars, rptVars, chunkVars, cacheVars, runVars, streamVars, stdVars>>

\* gather raises the first exception of a summarize_report task.
SummariesRaise ==
    /\ pc = "summarizing"
    /\ sum_exception # ""
    /\ error' = sum_exception
    /\ pc' = "raised"
    /\ UNCHANGED <<requestVars, planVars, events, fanVars, compileVars, sumVars, result, embVars, rptVars, chunkVars, cacheVars, runVars, streamVars, stdVars>>

\* ------------------------ generate_comprehensive_report: step 4, the return

Returned == [final_report |-> final_report, sub_reports |-> sub_reports,
             research_plan |-> search_queries]

\* await progress_callback("Research complete!", 100), then the return.
Complete ==
    /\ pc = "compiled"
    /\ IF has_callback
       THEN /\ events' = Append(events, Event("complete", 100, {}))
            /\ pc' = "callback_100"
            /\ result' = result
       ELSE /\ events' = events
            /\ pc' = "returned"
            /\ result' = Returned
    /\ UNCHANGED <<requestVars, planVars, fanVars, compileVars, sumVars, error, embVars, rptVars, chunkVars, cacheVars, runVars, streamVars, stdVars>>

Callback100Returns ==
    /\ pc = "callback_100"
    /\ pc' = "returned"
    /\ result' = Returned
    /\ UNCHANGED <<requestVars, planVars, events, fanVars, compileVars, sumVars, error, embVars, rptVars, chunkVars, cacheVars, runVars, streamVars, stdVars>>

\* ------------------------------------------------------------ specification

Next ==
    \/ HandleRequest
    \/ StartPlanning
    \/ Callback0Returns
    \/ PlannerReturns
    \/ PlannerFails
    \/ ReportPlan
    \/ Callback10Returns
    \/ StartFanout
    \/ \E i \in TaskIds : TaskAcquire(i)
    \/ \E i \in TaskIds : TaskCallbackReturns(i)
    \/ \E i \in TaskIds : EmbeddingSucceeds(i)
    \/ \E i \in TaskIds : EmbeddingFails(i)
    \/ \E i \in TaskIds : GenerationSucceeds(i)
    \/ \E i \in TaskIds : GenerationFails(i)
    \/ GatherReturns
    \/ GatherRaises
    \/ StartCompiling
    \/ Callback80Returns
    \/ CallCompilation
    \/ CompilationSucceeds
    \/ CompilationFails
    \/ \E i \in TaskIds : SummaryAcquire(i)
    \/ \E i \in TaskIds : SummarySucceeds(i)
    \/ \E i \in TaskIds : SummaryFails(i)
    \/ SummariesReturn
    \/ SummariesRaise
    \/ Complete
    \/ Callback100Returns

Spec == Init /\ [][Next]_vars

\* ------------------------------------ ai_service.py: _get_all_embeddings

\* sorted(results, key=lambda x: x[0]): an insertion sort of the pairs on
\* their index, stable as Python's sort is.
RECURSIVE InsertByIndex(_, _)
InsertByIndex(sorted, pair) ==
    IF sorted = <<>> THEN <<pair>>
    ELSE IF Last(sorted)[1] <= pair[1] THEN Append(sorted, pair)
    ELSE Append(InsertByIndex(SubSeq(sorted, 1, Len(sorted) - 1), pair), Last(sorted))

\* The same sort with reverse=True.
RECURSIVE InsertByIndexDescending(_, _)
InsertByIndexDescending(sorted, pair) ==
    IF sorted = <<>> THEN <<pair>>
    ELSE IF Last(sorted)[1] >= pair[1] THEN Append(sorted, pair)
    ELSE Append(InsertByIndexDescending(SubSeq(sorted, 1, Len(sorted) - 1), pair), Last(sorted))

RECURSIVE SortedByIndexDescending(_)
SortedByIndexDescending(pairs) ==
    IF pairs = <<>> THEN <<>>
    ELSE InsertByIndexDescending(SortedByIndexDescending(SubSeq(pairs, 1, Len(pairs) - 1)),
                                 Last(pairs))

RECURSIVE SortedByIndex(_)
SortedByIndex(pairs) ==
    IF pairs = <<>> THEN <<>>
    ELSE InsertByIndex(SortedByIndex(SubSeq(pairs, 1, Len(pairs) - 1)), Last(pairs))

\* [embedding for _, embedding in sorted_results]
EmbeddingsOf(pairs) == [j \in 1..Len(pairs) |-> pairs[j][2]]

\* semaphore = asyncio.Semaphore(10); one process_text task per text, with
\* its index; await asyncio.gather(*tasks).
StartEmbeddings ==
    /\ emb_pc = "called"
    /\ emb_semaphore' = embedding_concurrent_requests
    /\ emb_waiters' = UpTo(Len(texts))
    /\ text_pc' = [i \in TextIds |-> IF i < Len(texts) THEN "waiting" ELSE "none"]
    /\ emb_pc' = "gathering"
    /\ UNCHANGED <<texts, text_attempt, emb_results, emb_exception, emb_done_order, embeddings>>
    /\ UNCHANGED <<proVars, rptVars, chunkVars, cacheVars, runVars, streamVars, stdVars>>

\* process_text enters "async with semaphore" and calls _get_embedding.
TextAcquire(i) ==
    /\ text_pc[i] = "waiting"
    /\ emb_waiters # <<>>
    /\ Head(emb_waiters) = i
    /\ CanAcquire(emb_semaphore)
    /\ emb_semaphore' = emb_semaphore - 1
    /\ emb_waiters' = Tail(emb_waiters)
    /\ text_pc' = [text_pc EXCEPT ![i] = "calling"]
    /\ text_attempt' = [text_attempt EXCEPT ![i] = 1]
    /\ UNCHANGED <<texts, emb_pc, emb_results, emb_exception, emb_done_order, embeddings>>
    /\ UNCHANGED <<proVars, rptVars, chunkVars, cacheVars, runVars, streamVars, stdVars>>

\* The provider returns the embedding: process_text returns (index, embedding).
TextEmbedded(i) ==
    /\ text_pc[i] = "calling"
    /\ text_pc' = [text_pc EXCEPT ![i] = "done"]
    /\ text_attempt' = [text_attempt EXCEPT ![i] = 0]
    /\ emb_results' = [emb_results EXCEPT ![GatherSlot(i, Len(emb_done_order))] =
                          <<i, ProviderEmbedding(texts[i + 1])>>]
    /\ emb_done_order' = Append(emb_done_order, i)
    /\ emb_semaphore' = emb_semaphore + 1
    /\ UNCHANGED <<texts, emb_pc, emb_waiters, emb_exception, embeddings>>
    /\ UNCHANGED <<proVars, rptVars, chunkVars, cacheVars, runVars, streamVars, stdVars>>

\* An attempt of _get_embedding fails: @retry makes another one, or after
\* the third the task ends with tenacity's error.
TextAttemptFails(i) ==
    /\ text_pc[i] = "calling"
    /\ IF text_attempt[i] < MaxAttempts
       THEN /\ text_attempt' = [text_attempt EXCEPT ![i] = text_attempt[i] + 1]
            /\ UNCHANGED <<text_pc, emb_semaphore, emb_exception>>
       ELSE /\ text_attempt' = [text_attempt EXCEPT ![i] = 0]
            /\ text_pc' = [text_pc EXCEPT ![i] = "failed"]
            /\ emb_semaphore' = emb_semaphore + 1
            /\ emb_exception' = IF emb_exception = "" THEN RetryErrorText ELSE emb_exception
    /\ UNCHANGED <<texts, emb_pc, emb_waiters, emb_results, emb_done_order, embeddings>>
    /\ UNCHANGED <<proVars, rptVars, chunkVars, cacheVars, runVars, streamVars, stdVars>>

\* gather returns its slots; they are sorted by index and the embeddings
\* are returned.
EmbeddingsReturn ==
    /\ emb_pc = "gathering"
    /\ AllReturned(text_pc, Len(texts))
    /\ embeddings' = EmbeddingsOf(SortedByIndex(GatherResults(emb_results, Len(texts))))
    /\ emb_pc' = "returned"
    /\ UNCHANGED <<texts, text_pc, text_attempt, emb_semaphore, emb_waiters, emb_results,
                   emb_exception, emb_done_order>>
    /\ UNCHANGED <<proVars, rptVars, chunkVars, cacheVars, runVars, streamVars, stdVars>>

\* gather raises the first exception of a task: logged and raised again.
EmbeddingsRaise ==
    /\ emb_pc = "gathering"
    /\ emb_exception # ""
    /\ emb_pc' = "raised"
    /\ UNCHANGED <<texts, text_pc, text_attempt, emb_semaphore, emb_waiters, emb_results,
                   emb_exception, emb_done_order, embeddings>>
    /\ UNCHANGED <<proVars, rptVars, chunkVars, cacheVars, runVars, streamVars, stdVars>>

EmbNext ==
    \/ StartEmbeddings
    \/ \E i \in TextIds : TextAcquire(i)
    \/ \E i \in TextIds : TextEmbedded(i)
    \/ \E i \in TextIds : TextAttemptFails(i)
    \/ EmbeddingsReturn
    \/ EmbeddingsRaise

InitEmbed == EmbInit /\ ProIdle /\ ReportIdle /\ OthersIdle

SpecEmbed == InitEmbed /\ [][EmbNext]_vars

\* ------------------------------------------------ AIService.generate_report

\* chunk_texts = [chunk["content"] for chunk in chunks]
ContentsOf(cs) == [j \in 1..Len(cs) |-> cs[j].content]

\* What _get_all_embeddings returns: the provider's vector of each text, in
\* input order.
AllEmbeddings(ts) == [j \in 1..Len(ts) |-> ProviderEmbedding(ts[j])]

RECURSIVE DotUpTo(_, _, _)
DotUpTo(a, b, n) == IF n = 0 THEN 0 ELSE DotUpTo(a, b, n - 1) + a[n] * b[n]

\* np.dot(a, b)
Dot(a, b) == DotUpTo(a, b, Len(a))

\* _cosine_similarity: np.dot(a, b) / (norm(a) * norm(b)), kept exact as
\* the dot product and the square of the product of the norms.
cosine_similarity(a, b) == [dot |-> Dot(a, b), norms2 |-> Dot(a, a) * Dot(b, b)]

Abs(n) == IF n < 0 THEN 0 - n ELSE n

\* The quotient of a zero vector is 0.0 / 0.0: numpy gives nan (and a
\* warning), it does not raise.
IsNaN(x) == x.norms2 = 0

\* x < y as np.argsort orders the similarities. For non-zero vectors
\* t -> t * |t| grows with t, so the quotients are compared by their
\* signed squares; numpy sorts nan after every number.
SimilarityLess(x, y) ==
    IF IsNaN(x) THEN FALSE
    ELSE IF IsNaN(y) THEN TRUE
    ELSE x.dot * Abs(x.dot) * y.norms2 < y.dot * Abs(y.dot) * x.norms2

\* similarities: of the query embedding with each chunk embedding.
Similarities(all_embeddings) ==
    [j \in 1..(Len(all_embeddings) - 1) |->
        cosine_similarity(all_embeddings[1], all_embeddings[j + 1])]

\* np.argsort(similarities): the index lists that put the similarities in
\* non-decreasing order. The default kind is quicksort, which is not
\* stable: equal similarities come in an order the build chooses.
Argsort(similarities) ==
    LET n == Len(similarities)
    IN  { [k \in 1..n |-> p[k] - 1] : p \in
            { q \in Permutations(1..n) :
                \A k \in 1..(n - 1) : ~SimilarityLess(similarities[q[k + 1]],
                                                      similarities[q[k]]) } }

\* An index list left as argsort gives it.
NotReversed(s) == s

\* s[::-1]
Reversed(s) == [k \in 1..Len(s) |-> s[Len(s) + 1 - k]]

\* ranked_chunks[:self.max_chunks]
FirstChunks(cs, n) == SubSeq(cs, 1, Min(n, Len(cs)))

\* chunk_text = f"Source: {url}\nTitle: {title}\nContent: {content}\n"
ChunkText(chunk) ==
    "Source: " \o chunk.url \o "\nTitle: " \o chunk.title
               \o "\nContent: " \o chunk.content \o "\n"

\* chunk_tokens = len(chunk_text) // 4
ChunkTokens(chunk) == Len(ChunkText(chunk)) \div CharsPerToken

\* max_available_tokens = Config.MAX_INPUT_TOKENS - system_prompt_tokens - 1000
MaxAvailableTokens(input_tokens) == input_tokens - system_prompt_tokens - BufferTokens

\* A budget test made before the chunk is counted.
ExceedsBudgetBeforeAdding(total_tokens, chunk_tokens, max_available_tokens) ==
    total_tokens > max_available_tokens

\* if total_tokens + chunk_tokens > max_available_tokens
ExceedsBudget(total_tokens, chunk_tokens, max_available_tokens) ==
    total_tokens + chunk_tokens > max_available_tokens

\* A loop that skips the chunk that does not fit and goes on ("continue").
RECURSIVE ContextPartsSkipping(_, _, _, _)
ContextPartsSkipping(cs, k, total_tokens, max_available_tokens) ==
    IF k > Len(cs) THEN <<>>
    ELSE IF ExceedsBudget(total_tokens, ChunkTokens(cs[k]), max_available_tokens)
         THEN ContextPartsSkipping(cs, k + 1, total_tokens, max_available_tokens)
         ELSE <<ChunkText(cs[k])>> \o
              ContextPartsSkipping(cs, k + 1, total_tokens + ChunkTokens(cs[k]),
                                   max_available_tokens)

\* The loop of _build_context from chunk k on: context_parts grows until
\* the first chunk that does not fit ("break").
RECURSIVE ContextParts(_, _, _, _)
ContextParts(cs, k, total_tokens, max_available_tokens) ==
    IF k > Len(cs) THEN <<>>
    ELSE IF ExceedsBudget(total_tokens, ChunkTokens(cs[k]), max_available_tokens)
         THEN <<>>
         ELSE <<ChunkText(cs[k])>> \o
              ContextParts(cs, k + 1, total_tokens + ChunkTokens(cs[k]),
                           max_available_tokens)

\* separator.join(parts)
RECURSIVE Join(_, _)
Join(parts, separator) ==
    IF parts = <<>> THEN ""
    ELSE IF Len(parts) = 1 THEN parts[1]
    ELSE parts[1] \o separator \o Join(Tail(parts), separator)

\* _build_context(chunks)
build_context(cs, input_tokens) ==
    Join(ContextParts(cs, 1, 0, MaxAvailableTokens(input_tokens)), "\n")

\* The text of _create_report_prompt around the query and the context.
PromptHead ==
    "Based on the following research query and source materials, generate a comprehensive report.\n"
    \o "        \n"
    \o "Query: "

PromptMiddle ==
    "\n"
    \o "\n"
    \o "Source Materials:\n"

PromptTail ==
    "\n"
    \o "\n"
    \o "Please generate a detailed report that:\n"
    \o "1. Synthesizes information from multiple sources\n"
    \o "2. Uses proper quotation marks for direct quotes (e.g., \"quoted text\")\n"
    \o "3. Maintains a neutral, academic tone\n"
    \o "4. Organizes information logically\n"
    \o "5. Highlights key findings and insights\n"
    \o "6. Properly attributes information to sources using standard quotation format\n"
    \o "\n"
    \o "For example:\n"
    \o "According to [Source], \"direct quote here.\" Another source states that \"another quote here.\"\n"
    \o "\n"
    \o "Report:"

create_report_prompt(q, ctx) == PromptHead \o q \o PromptMiddle \o ctx \o PromptTail

\* response.choices[0].message.content of the provider's n-th call.
ProviderCompletion(n) == "completion " \o ToString(n)

\* A retry policy that gives up one attempt early.
RetryStopsEarly(attempt_number) == attempt_number >= MaxAttempts - 1

\* A retry policy that allows one attempt more.
RetryStopsLate(attempt_number) == attempt_number > MaxAttempts

\* stop=stop_after_attempt(3)
RetryStops(attempt_number) == attempt_number >= MaxAttempts

\* The texts of the errors a failing embeddings.create or
\* chat.completions.create call may raise.
ProviderErrorTexts == {"Rate limit reached", "Connection error."}

\* The sources of generate_report_with_sources: the url of each used chunk,
\* once, at its first occurrence.
RECURSIVE SourcesFrom(_, _, _)
SourcesFrom(used, k, found) ==
    IF k > Len(used) THEN found
    ELSE SourcesFrom(used, k + 1,
                     IF used[k].url \notin Range(found) THEN Append(found, used[k].url)
                     ELSE found)

extract_sources(used) == SourcesFrom(used, 1, <<>>)

\* A rerank that refuses an empty chunk list instead of embedding the query.
CallEmbeddingsRejectingEmpty ==
    /\ rpt_pc = "called"
    /\ IF chunks = <<>>
       THEN /\ rpt_error' = "no chunks"
            /\ rpt_pc' = "raised"
            /\ UNCHANGED all_texts
       ELSE /\ all_texts' = <<query>> \o ContentsOf(chunks)
            /\ rpt_pc' = "embedding"
            /\ UNCHANGED rpt_error
    /\ UNCHANGED <<query, chunks, max_input_tokens, max_chunks, ranked_indices, ranked_chunks,
                   used_chunks, context, prompt, gen_attempt, provider_calls, gen_outcomes,
                   response, sources, provider_error>>
    /\ UNCHANGED <<proVars, embVars, chunkVars, cacheVars, runVars, streamVars, stdVars>>

\* generate_report calls _rerank_chunks_with_embeddings, which awaits
\* _get_all_embeddings([query] + chunk_texts): one provider call, retried,
\* for each text.
CallEmbeddings ==
    /\ rpt_pc = "called"
    /\ all_texts' = <<query>> \o ContentsOf(chunks)
    /\ rpt_pc' = "embedding"
    /\ UNCHANGED <<query, chunks, max_input_tokens, max_chunks, ranked_indices, ranked_chunks,
                   used_chunks, context, prompt, gen_attempt, provider_calls, gen_outcomes,
                   response, rpt_error, sources, provider_error>>
    /\ UNCHANGED <<proVars, embVars, chunkVars, cacheVars, runVars, streamVars, stdVars>>

\* _get_all_embeddings raises: the handlers of _rerank_chunks_with_embeddings
\* and of generate_report log and raise again.
RerankEmbeddingsRaise ==
    /\ rpt_pc = "embedding"
    /\ \E e \in ProviderErrorTexts : provider_error' = e
    /\ rpt_error' = RetryErrorText
    /\ rpt_pc' = "raised"
    /\ UNCHANGED <<query, chunks, max_input_tokens, max_chunks, all_texts, ranked_indices,
                   ranked_chunks, used_chunks, context, prompt, gen_attempt, provider_calls,
                   gen_outcomes, response, sources>>
    /\ UNCHANGED <<proVars, embVars, chunkVars, cacheVars, runVars, streamVars, stdVars>>

\* _get_all_embeddings returns: the chunks are ranked and cut to max_chunks,
\* the context and the prompt are built, and _generate_with_gpt4 makes its
\* first provider call.
RerankEmbeddingsReturn ==
    /\ rpt_pc = "embedding"
    /\ \E order \in Argsort(Similarities(AllEmbeddings(all_texts))) :
          LET indices == Reversed(order)
              ranked == [k \in 1..Len(indices) |-> chunks[indices[k] + 1]]
              used == FirstChunks(ranked, max_chunks)
              ctx == build_context(used, max_input_tokens)
          IN  /\ ranked_indices' = indices
              /\ ranked_chunks' = ranked
              /\ used_chunks' = used
              /\ sources' = extract_sources(used)
              /\ context' = ctx
              /\ prompt' = create_report_prompt(query, ctx)
    /\ gen_attempt' = 1
    /\ provider_calls' = 1
    /\ rpt_pc' = "generating"
    /\ UNCHANGED <<query, chunks, max_input_tokens, max_chunks, all_texts, gen_outcomes,
                   response, rpt_error, provider_error>>
    /\ UNCHANGED <<proVars, embVars, chunkVars, cacheVars, runVars, streamVars, stdVars>>

\* The provider call returns: _generate_with_gpt4 returns the completion and
\* generate_report returns it.
ReportGenerationReturns ==
    /\ rpt_pc = "generating"
    /\ gen_outcomes' = Append(gen_outcomes, "returned")
    /\ response' = ProviderCompletion(provider_calls)
    /\ rpt_pc' = "returned"
    /\ UNCHANGED <<query, chunks, max_input_tokens, max_chunks, all_texts, ranked_indices,
                   ranked_chunks, used_chunks, context, prompt, gen_attempt, provider_calls,
                   rpt_error, sources, provider_error>>
    /\ UNCHANGED <<proVars, embVars, chunkVars, cacheVars, runVars, streamVars, stdVars>>

\* The provider call fails: @retry waits and calls again, or, the attempts
\* used up, raises tenacity's error, which generate_report logs and raises.
ReportGenerationFails ==
    /\ rpt_pc = "generating"
    /\ gen_outcomes' = Append(gen_outcomes, "failed")
    /\ \E e \in ProviderErrorTexts : provider_error' = e
    /\ IF RetryStops(gen_attempt)
       THEN /\ rpt_error' = RetryErrorText
            /\ rpt_pc' = "raised"
            /\ UNCHANGED <<gen_attempt, provider_calls>>
       ELSE /\ gen_attempt' = gen_attempt + 1
            /\ provider_calls' = provider_calls + 1
            /\ UNCHANGED <<rpt_pc, rpt_error>>
    /\ UNCHANGED <<query, chunks, max_input_tokens, max_chunks, all_texts, ranked_indices,
                   ranked_chunks, used_chunks, context, prompt, response, sources>>
    /\ UNCHANGED <<proVars, embVars, chunkVars, cacheVars, runVars, streamVars, stdVars>>

ReportNext ==
    \/ CallEmbeddings
    \/ RerankEmbeddingsRaise
    \/ RerankEmbeddingsReturn
    \/ ReportGenerationReturns
    \/ ReportGenerationFails

InitReport == ReportInit /\ ProIdle /\ EmbIdle /\ OthersIdle

SpecReport == InitReport /\ [][ReportNext]_vars

\* Chunks and queries of which one has an embedding of norm zero ("z").
ZeroNormPool ==
    { [url |-> "u1", title |-> "T", content |-> "a"],
      [url |-> "u3", title |-> "A long title", content |-> "b"],
      [url |-> "u5", title |-> "Tz", content |-> "z"] }

\* generate_report is called with such chunks, under the default
\* configuration.
RerankInit ==
    /\ query \in {"a", "z"}
    /\ chunks \in UNION {[1..n -> ZeroNormPool] : n \in 0..MaxChunks}
    /\ max_input_tokens = MAX_INPUT_TOKENS
    /\ max_chunks = MAX_CHUNKS_FOR_REPORT
    /\ rpt_pc = "called"
    /\ ReportFresh

InitRerank == RerankInit /\ ProIdle /\ EmbIdle /\ OthersIdle

SpecRerank == InitRerank /\ [][ReportNext]_vars

\* ------------------------------------------------- utils/chunking.py: texts

\* A text is the sequence of its characters. The characters of the texts
\* chunked: two letters, a sentence end and a space.
Chars == {"a", "b", ".", " "}

\* \s of the regular expressions, and the whitespace of str.strip/split.
IsSpace(c) == c \in {" ", "\t", "\n", "\r"}

\* [.!?]
IsSentenceEnd(c) == c \in {".", "!", "?"}

\* re.sub(r'\s+', ' ', text): every run of whitespace becomes one space.
RECURSIVE CollapseSpaces(_)
CollapseSpaces(t) ==
    IF t = <<>> THEN <<>>
    ELSE IF IsSpace(t[1])
         THEN IF Len(t) > 1 /\ IsSpace(t[2])
              THEN CollapseSpaces(Tail(t))
              ELSE <<" ">> \o CollapseSpaces(Tail(t))
         ELSE <<t[1]>> \o CollapseSpaces(Tail(t))

RECURSIVE LStrip(_)
LStrip(t) == IF t # <<>> /\ IsSpace(t[1]) THEN LStrip(Tail(t)) ELSE t

RECURSIVE RStrip(_)
RStrip(t) ==
    IF t # <<>> /\ IsSpace(t[Len(t)]) THEN RStrip(SubSeq(t, 1, Len(t) - 1)) ELSE t

\* str.strip()
Strip(t) == LStrip(RStrip(t))

\* text = re.sub(r'\s+', ' ', text).strip()
CleanText(t) == Strip(CollapseSpaces(t))

\* re.split(r'(?<=[.!?])\s+', text) from character i on, cur being the
\* piece read so far: a run of whitespace that follows a sentence end
\* closes the piece.
RECURSIVE SplitSentencesFrom(_, _, _)
SplitSentencesFrom(t, i, cur) ==
    IF i > Len(t) THEN <<cur>>
    ELSE IF IsSpace(t[i]) /\ i > 1 /\ IsSentenceEnd(t[i - 1])
         THEN <<cur>> \o SplitSentencesFrom(LStrip(SubSeq(t, i, Len(t))), 1, <<>>)
         ELSE SplitSentencesFrom(t, i + 1, Append(cur, t[i]))

SplitSentences(t) == SplitSentencesFrom(t, 1, <<>>)

\* sentence.split() from character i on: the words between whitespace.
RECURSIVE WordsFrom(_, _, _)
WordsFrom(t, i, cur) ==
    IF i > Len(t) THEN IF cur = <<>> THEN <<>> ELSE <<cur>>
    ELSE IF IsSpace(t[i])
         THEN (IF cur = <<>> THEN <<>> ELSE <<cur>>) \o WordsFrom(t, i + 1, <<>>)
         ELSE WordsFrom(t, i + 1, Append(cur, t[i]))

Words(t) == WordsFrom(t, 1, <<>>)

\* ' '.join(parts)
RECURSIVE JoinWithSpace(_)
JoinWithSpace(parts) ==
    IF parts = <<>> THEN <<>>
    ELSE IF Len(parts) = 1 THEN parts[1]
    ELSE parts[1] \o <<" ">> \o JoinWithSpace(Tail(parts))

\* if chunk: chunks.append(' '.join(chunk))
AppendJoined(chunks_so_far, chunk) ==
    IF chunk # <<>> THEN Append(chunks_so_far, JoinWithSpace(chunk)) ELSE chunks_so_far

\* The loop over the words of a sentence longer than chunk_size.
RECURSIVE SplitWords(_, _, _, _, _)
SplitWords(words, k, temp_chunk, temp_length, size) ==
    IF k > Len(words) THEN AppendJoined(<<>>, temp_chunk)
    ELSE LET word_length == Len(words[k]) + 1
         IN  IF temp_length + word_length > size
             THEN AppendJoined(<<>>, temp_chunk) \o
                  SplitWords(words, k + 1, <<words[k]>>, word_length, size)
             ELSE SplitWords(words, k + 1, Append(temp_chunk, words[k]),
                             temp_length + word_length, size)

\* A loop end that forgets the chunk being filled.
DropLast(chunks_so_far, current_chunk) == chunks_so_far

\* if current_chunk: chunks.append(' '.join(current_chunk)), after the loop
AppendLast(chunks_so_far, current_chunk) == AppendJoined(chunks_so_far, current_chunk)

\* A new chunk that repeats the last sentence of the one before.
NewChunkWithOverlap(current_chunk, sentence) == <<Last(current_chunk), sentence>>

\* current_chunk = [sentence]
NewChunk(current_chunk, sentence) == <<sentence>>

\* The loop over the sentences, from sentence k on.
RECURSIVE SplitLoop(_, _, _, _, _)
SplitLoop(sentences, k, current_chunk, current_length, size) ==
    IF k > Len(sentences) THEN AppendLast(<<>>, current_chunk)
    ELSE LET sentence == sentences[k]
             sentence_length == Len(sentence)
         IN  IF sentence_length > size
             THEN AppendJoined(<<>>, current_chunk)
                  \o SplitWords(Words(sentence), 1, <<>>, 0, size)
                  \o SplitLoop(sentences, k + 1, <<>>,
                               IF current_chunk # <<>> THEN 0 ELSE current_length, size)
             ELSE IF current_length + sentence_length > size
             THEN <<JoinWithSpace(current_chunk)>>
                  \o SplitLoop(sentences, k + 1, NewChunk(current_chunk, sentence),
                               sentence_length, size)
             ELSE SplitLoop(sentences, k + 1, Append(current_chunk, sentence),
                            current_length + sentence_length, size)

\* split_text_into_chunks(text, chunk_size)
split_text_into_chunks(t, size) == SplitLoop(SplitSentences(CleanText(t)), 1, <<>>, 0, size)

\* ------------------------------------ utils/chunking.py: ContentProcessor

\* The characters of all the documents of one process_contents call, and
\* the documents of one call.
MaxTextLength == 4

MaxDocuments == 2

\* The values CHUNK_SIZE and MIN_CHUNK_LENGTH are configured with, of the
\* size of the texts above.
ConfiguredChunkSizes == {2, 3}

ConfiguredMinChunkLengths == {1, 2}

TextsUpTo(n) == UNION {[1..m -> Chars] : m \in 0..n}

\* The k-th document extracted: its page and the text of the page.
Document(k, t) ==
    [title |-> "Document " \o ToString(k), content |-> t,
     url |-> "http://example.com/" \o ToString(k)]

\* The lists of up to n texts of at most budget characters together.
RECURSIVE TextLists(_, _)
TextLists(n, budget) ==
    IF n = 0 THEN {<<>>}
    ELSE {<<>>} \cup UNION { { <<t>> \o rest : rest \in TextLists(n - 1, budget - Len(t)) } :
                              t \in TextsUpTo(budget) }

\* The lists of documents handed to process_contents.
DocumentLists ==
    { [k \in 1..Len(ts) |-> Document(k, ts[k])] : ts \in TextLists(MaxDocuments, MaxTextLength) }

\* A ContentProcessor is built from the configuration and handed documents.
ChunkInit ==
    /\ contents \in DocumentLists
    /\ chunk_size \in ConfiguredChunkSizes
    /\ min_chunk_length \in ConfiguredMinChunkLengths
    /\ chunk_overlap = CHUNK_OVERLAP
    /\ chk_pc = "called"
    /\ text_chunks = <<>>
    /\ processed_contents = <<>>

\* A filter that lets every chunk through.
AlwaysLongEnough(chunk, min_length) == TRUE

\* if len(chunk.strip()) >= self.min_chunk_length
LongEnough(chunk, min_length) == Len(Strip(chunk)) >= min_length

\* The entries process_contents makes for one document: none for one
\* without content, else one for each chunk that is long enough.
EntriesOf(document, size, min_length) ==
    IF document.content = <<>> THEN <<>>
    ELSE LET cs == split_text_into_chunks(document.content, size)
             kept == SelectSeq(cs, LAMBDA chunk : LongEnough(chunk, min_length))
         IN  [j \in 1..Len(kept) |->
                 [title |-> document.title, content |-> kept[j], url |-> document.url]]

\* The loop of process_contents over the documents, from document k on.
RECURSIVE ProcessFrom(_, _, _, _)
ProcessFrom(documents, k, size, min_length) ==
    IF k > Len(documents) THEN <<>>
    ELSE EntriesOf(documents[k], size, min_length)
         \o ProcessFrom(documents, k + 1, size, min_length)

\* split_text_into_chunks(text, chunk_size) is called on the content of
\* each document, before the documents are handed to process_contents.
SplitTexts ==
    /\ chk_pc = "called"
    /\ text_chunks' = [k \in 1..Len(contents) |->
                          split_text_into_chunks(contents[k].content, chunk_size)]
    /\ chk_pc' = "split"
    /\ UNCHANGED <<contents, chunk_size, min_chunk_length, chunk_overlap, processed_contents>>
    /\ UNCHANGED <<proVars, embVars, rptVars, cacheVars, runVars, streamVars, stdVars>>

\* processor.process_contents(contents) returns.
ProcessContents ==
    /\ chk_pc = "split"
    /\ processed_contents' = ProcessFrom(contents, 1, chunk_size, min_chunk_length)
    /\ chk_pc' = "returned"
    /\ UNCHANGED <<contents, chunk_size, min_chunk_length, chunk_overlap, text_chunks>>
    /\ UNCHANGED <<proVars, embVars, rptVars, cacheVars, runVars, streamVars, stdVars>>

ChunkNext == SplitTexts \/ ProcessContents

InitChunk == ChunkInit /\ ProIdle /\ EmbIdle /\ ReportIdle /\ CacheIdle /\ RunIdle /\ StreamIdle /\ StandardIdle

SpecChunk == InitChunk /\ [][ChunkNext]_vars

\* ----------------------------------- services/cache_service.py: reports

\* The URLs of one call and the get_report and set_report calls made.
MaxUrls == 2

MaxCacheCalls == 2

\* The queries tried, one with a trailing space, and the reports stored.
CacheQueries == {"q", "q "}

Reports == {"Report 1", "Report 2"}

\* The URLs tried, in the order of their code points, the order sorted()
\* compares strings in ("," comes before every letter).
UrlPool == <<"a", "a,b", "b">>

UrlLists == UNION {[1..n -> Range(UrlPool)] : n \in 0..MaxUrls}

PoolIndex(url) == CHOOSE i \in 1..Len(UrlPool) : UrlPool[i] = url

\* sorted(urls)
RECURSIVE Insert(_, _)
Insert(url, urls) ==
    IF urls = <<>> THEN <<url>>
    ELSE IF PoolIndex(url) <= PoolIndex(Head(urls)) THEN <<url>> \o urls
    ELSE <<Head(urls)>> \o Insert(url, Tail(urls))

RECURSIVE Sorted(_)
Sorted(urls) == IF urls = <<>> THEN <<>> ELSE Insert(Head(urls), Sorted(Tail(urls)))

\* cache_data = f"{query}:{','.join(sorted(urls))}"
cache_data(q, urls) == q \o ":" \o Join(Sorted(urls), ",")

\* hashlib.md5(data.encode()).hexdigest(), taken to be free of collisions:
\* the digest of a text stands for that text and no other.
md5_hexdigest(data) == "md5(" \o data \o ")"

\* _generate_key(prefix, data) = f"{prefix}:{hash_object.hexdigest()}"
generate_key(prefix, data) == prefix \o ":" \o md5_hexdigest(data)

ReportKey(q, urls) == generate_key("report", cache_data(q, urls))

\* What redis_client.get returns for a key without an entry: None.
Missing == "None"

\* redis_client.get(key)
RedisGet(key) ==
    IF \E entry \in redis : entry.key = key
    THEN (CHOOSE entry \in redis : entry.key = key).value
    ELSE Missing

\* A CacheService is built on an empty database.
CacheInit ==
    /\ redis = {}
    /\ cache_calls = <<>>
    /\ cache_pc = "ready"

\* set_report(query, urls, report): redis_client.setex(key, self.ttl, report)
SetReport ==
    /\ cache_pc = "ready"
    /\ Len(cache_calls) < MaxCacheCalls
    /\ \E q \in CacheQueries, urls \in UrlLists, report \in Reports :
          LET key == ReportKey(q, urls)
          IN  /\ redis' = {entry \in redis : entry.key # key}
                             \cup {[key |-> key, value |-> report]}
              /\ cache_calls' = Append(cache_calls,
                    [op |-> "set_report", query |-> q, urls |-> urls, key |-> key,
                     value |-> report])
    /\ UNCHANGED cache_pc
    /\ UNCHANGED <<proVars, embVars, rptVars, chunkVars, runVars, streamVars, stdVars>>

\* get_report(query, urls) returns redis_client.get(key)
GetReport ==
    /\ cache_pc = "ready"
    /\ Len(cache_calls) < MaxCacheCalls
    /\ \E q \in CacheQueries, urls \in UrlLists :
          LET key == ReportKey(q, urls)
          IN  cache_calls' = Append(cache_calls,
                 [op |-> "get_report", query |-> q, urls |-> urls, key |-> key,
                  value |-> RedisGet(key)])
    /\ UNCHANGED <<redis, cache_pc>>
    /\ UNCHANGED <<proVars, embVars, rptVars, chunkVars, runVars, streamVars, stdVars>>

\* The ttl given to setex has passed for an entry: Redis removes it.
Expire ==
    /\ cache_pc = "ready"
    /\ \E entry \in redis : redis' = redis \ {entry}
    /\ UNCHANGED <<cache_calls, cache_pc>>
    /\ UNCHANGED <<proVars, embVars, rptVars, chunkVars, runVars, streamVars, stdVars>>

CacheNext == SetReport \/ GetReport \/ Expire

InitCache == CacheInit /\ ProIdle /\ EmbIdle /\ ReportIdle /\ ChunkIdle /\ RunIdle /\ StreamIdle /\ StandardIdle

SpecCache == InitCache /\ [][CacheNext]_vars

\* ------------- pro_research_service.py: concurrent pro-mode requests

\* The handler builds a ProResearchService for each request, and each
\* generate_comprehensive_report call makes its own
\* asyncio.Semaphore(self.max_concurrent_requests) and its tasks.
StartRun(r) ==
    /\ \A i \in Indices(MaxRunQueries) : run_task_pc[r][i] = "none"
    /\ \E n \in 1..MaxRunQueries :
          run_task_pc' = [run_task_pc EXCEPT ![r] =
                             [i \in Indices(MaxRunQueries) |->
                                 IF i < n THEN "waiting" ELSE "none"]]
    /\ run_semaphore' = [run_semaphore EXCEPT ![r] = max_concurrent_requests]
    /\ UNCHANGED <<proVars, embVars, rptVars, chunkVars, cacheVars, streamVars, stdVars>>

\* process_query enters "async with semaphore", the semaphore of its own
\* call, in the order of the tasks, and generate_report embeds the query
\* under the semaphore that _get_all_embeddings makes for that call.
RunAcquire(r, i) ==
    /\ run_task_pc[r][i] = "waiting"
    /\ \A j \in Indices(i) : run_task_pc[r][j] # "waiting"
    /\ CanAcquire(run_semaphore[r])
    /\ run_semaphore' = [run_semaphore EXCEPT ![r] = run_semaphore[r] - 1]
    /\ run_task_pc' = [run_task_pc EXCEPT ![r][i] = "embedding"]
    /\ UNCHANGED <<proVars, embVars, rptVars, chunkVars, cacheVars, streamVars, stdVars>>

\* The embedding of the query returns and _generate_with_gpt4 is called.
RunEmbedded(r, i) ==
    /\ run_task_pc[r][i] = "embedding"
    /\ run_task_pc' = [run_task_pc EXCEPT ![r][i] = "generating"]
    /\ UNCHANGED run_semaphore
    /\ UNCHANGED <<proVars, embVars, rptVars, chunkVars, cacheVars, streamVars, stdVars>>

\* generate_report returns, or raises after its attempts: process_query
\* leaves "async with semaphore".
RunLeaves(r, i) ==
    /\ run_task_pc[r][i] \in {"embedding", "generating"}
    /\ \E outcome \in {"done", "failed"} :
          run_task_pc' = [run_task_pc EXCEPT ![r][i] = outcome]
    /\ run_semaphore' = [run_semaphore EXCEPT ![r] = run_semaphore[r] + 1]
    /\ UNCHANGED <<proVars, embVars, rptVars, chunkVars, cacheVars, streamVars, stdVars>>

RunNext ==
    \E r \in Runs :
       \/ StartRun(r)
       \/ \E i \in Indices(MaxRunQueries) : RunAcquire(r, i) \/ RunEmbedded(r, i) \/ RunLeaves(r, i)

InitRuns == RunIdle /\ ProIdle /\ EmbIdle /\ ReportIdle /\ ChunkIdle /\ CacheIdle /\ StreamIdle /\ StandardIdle

SpecRuns == InitRuns /\ [][RunNext]_vars

\* -------------------------- main.py: generate_research_stream (pro mode)

\* The sub-queries of the plan of a streamed request.
MaxStreamQueries == 2

\* The (phase, progress) pairs generate_comprehensive_report hands to
\* progress_callback for a plan of n sub-queries, in order.
StreamProgram(n) ==
    << <<"planning", 0>>, <<"planned", 10>> >>
    \o [i \in 1..n |-> <<"researching", Progress(i - 1, n)>>]
    \o << <<"compiling", 80>>, <<"complete", 100>> >>

\* The events sent to the client: data of a progress update, of the
\* result or of the error.
ProgressData(pair) == [kind |-> "progress", phase |-> pair[1], progress |-> pair[2]]

FinalData(task) == [kind |-> IF task = "returned" THEN "result" ELSE "error",
                    phase |-> "", progress |-> 0]

\* The research task has returned or raised.
TaskDone(task) == task \in {"returned", "raised"}

\* A streaming request in pro mode arrives.
StreamInit ==
    /\ str_pc = "called"
    /\ research_task = "none"
    /\ stream_queries \in 0..MaxStreamQueries
    /\ put_count = 0
    /\ progress_queue = <<>>
    /\ str_item = <<>>
    /\ sent = <<>>

\* event_generator creates the queue and the research task, finds the task
\* not done and awaits progress_queue.get() under wait_for.
StartResearchTask ==
    /\ str_pc = "called"
    /\ research_task' = "running"
    /\ str_pc' = "waiting"
    /\ UNCHANGED <<stream_queries, put_count, progress_queue, str_item, sent>>
    /\ UNCHANGED <<proVars, embVars, rptVars, chunkVars, cacheVars, runVars, stdVars>>

\* The research task runs while event_generator is suspended, in get() or
\* in its yield while the response is sent; a getter woken by a put runs
\* before the task is resumed by its provider.
TaskMayRun ==
    /\ research_task = "running"
    /\ \/ str_pc = "yielding"
       \/ str_pc = "waiting" /\ progress_queue = <<>>

\* progress_callback puts the next pair on the queue, and the orchestrator
\* awaits the provider (the planner, the sub-queries, the compilation).
TaskPuts ==
    /\ TaskMayRun
    /\ put_count < Len(StreamProgram(stream_queries)) - 1
    /\ progress_queue' = Append(progress_queue, StreamProgram(stream_queries)[put_count + 1])
    /\ put_count' = put_count + 1
    /\ UNCHANGED <<str_pc, research_task, stream_queries, str_item, sent>>
    /\ UNCHANGED <<proVars, embVars, rptVars, chunkVars, cacheVars, runVars, stdVars>>

\* await progress_callback("Research complete!", 100) and the return that
\* follows it: put does not wait on a queue without a bound.
TaskCompletes ==
    /\ TaskMayRun
    /\ put_count = Len(StreamProgram(stream_queries)) - 1
    /\ progress_queue' = Append(progress_queue, StreamProgram(stream_queries)[put_count + 1])
    /\ put_count' = put_count + 1
    /\ research_task' = "returned"
    /\ UNCHANGED <<str_pc, stream_queries, str_item, sent>>
    /\ UNCHANGED <<proVars, embVars, rptVars, chunkVars, cacheVars, runVars, stdVars>>

\* The planner, a sub-query that has started or the compilation fails:
\* generate_comprehensive_report raises.
TaskFails ==
    /\ TaskMayRun
    /\ put_count = 1 \/ put_count >= 3
    /\ research_task' = "raised"
    /\ UNCHANGED <<str_pc, stream_queries, put_count, progress_queue, str_item, sent>>
    /\ UNCHANGED <<proVars, embVars, rptVars, chunkVars, cacheVars, runVars, stdVars>>

\* progress_queue.get() returns a pair, which is yielded.
GetReturns ==
    /\ str_pc = "waiting"
    /\ progress_queue # <<>>
    /\ str_item' = Head(progress_queue)
    /\ progress_queue' = Tail(progress_queue)
    /\ str_pc' = "yielding"
    /\ UNCHANGED <<research_task, stream_queries, put_count, sent>>
    /\ UNCHANGED <<proVars, embVars, rptVars, chunkVars, cacheVars, runVars, stdVars>>

\* The end of "while not research_task.done()": the result or the error of
\* the task is yielded, whatever the queue holds.
EndOfLoop(events_sent) ==
    /\ sent' = Append(events_sent, FinalData(research_task))
    /\ str_pc' = "closed"
    /\ UNCHANGED <<progress_queue, str_item>>

\* wait_for times out after a second with the task done: the loop ends.
\* (With the task running the loop goes on waiting.)
GetTimesOut ==
    /\ str_pc = "waiting"
    /\ progress_queue = <<>>
    /\ TaskDone(research_task)
    /\ EndOfLoop(sent)
    /\ UNCHANGED <<research_task, stream_queries, put_count>>
    /\ UNCHANGED <<proVars, embVars, rptVars, chunkVars, cacheVars, runVars, stdVars>>

\* The pair yielded has been sent; the loop tests research_task.done() and
\* ends, or takes the next pair, or waits for one.
YieldReturns ==
    /\ str_pc = "yielding"
    /\ LET events_sent == Append(sent, ProgressData(str_item))
       IN  IF TaskDone(research_task) THEN EndOfLoop(events_sent)
           ELSE /\ sent' = events_sent
                /\ IF progress_queue # <<>>
                   THEN /\ str_item' = Head(progress_queue)
                        /\ progress_queue' = Tail(progress_queue)
                        /\ str_pc' = "yielding"
                   ELSE /\ str_pc' = "waiting"
                        /\ UNCHANGED <<progress_queue, str_item>>
    /\ UNCHANGED <<research_task, stream_queries, put_count>>
    /\ UNCHANGED <<proVars, embVars, rptVars, chunkVars, cacheVars, runVars, stdVars>>

StreamNext ==
    \/ StartResearchTask
    \/ TaskPuts
    \/ TaskCompletes
    \/ TaskFails
    \/ GetReturns
    \/ GetTimesOut
    \/ YieldReturns

InitStream == StreamInit /\ ProIdle /\ EmbIdle /\ ReportIdle /\ ChunkIdle /\ CacheIdle /\ RunIdle /\ StandardIdle

SpecStream == InitStream /\ [][StreamNext]_vars

\* ------------------------------- main.py: generate_research (standard mode)

\* The results the search returns for a request.
MaxSearchResults == 3

\* A standard-mode request arrives: what the search will return, each result
\* by what its extraction gives (content, no content, an exception), and
\* request.max_results (at least 1).
StandardInit ==
    /\ std_pc = "called"
    /\ std_results \in UNION {[1..n -> {"content", "empty", "raised"}] : n \in 0..MaxSearchResults}
    /\ std_max_results \in 1..2
    /\ std_contents = <<>>
    /\ std_exception = ""
    /\ std_status = 0

\* The loop of process_content over search_results[:max_results]: a result
\* is kept when its extraction returns content; an exception is counted
\* and swallowed.
ExtractedContents(found, max_results) ==
    SelectSeq(SubSeq(found, 1, Min(max_results, Len(found))),
              LAMBDA outcome : outcome = "content")

\* process_content: searcher.search returns; no results raise
\* HTTPException(404).
SearchReturns ==
    /\ std_pc = "called"
    /\ IF std_results = <<>>
       THEN std_exception' = "HTTPException(404)" /\ std_pc' = "except"
       ELSE std_pc' = "extracting" /\ UNCHANGED std_exception
    /\ UNCHANGED <<std_results, std_max_results, std_contents, std_status>>
    /\ UNCHANGED <<proVars, embVars, rptVars, chunkVars, cacheVars, runVars, streamVars>>

\* process_content: the extraction loop; no contents raise
\* HTTPException(404).
ExtractContents ==
    /\ std_pc = "extracting"
    /\ std_contents' = ExtractedContents(std_results, std_max_results)
    /\ IF std_contents' = <<>>
       THEN std_exception' = "HTTPException(404)" /\ std_pc' = "except"
       ELSE std_pc' = "generating" /\ UNCHANGED std_exception
    /\ UNCHANGED <<std_results, std_max_results, std_status>>
    /\ UNCHANGED <<proVars, embVars, rptVars, chunkVars, cacheVars, runVars, streamVars>>

\* The contents are processed, the report generated and formatted: the
\* Response is returned.
StandardResponds ==
    /\ std_pc = "generating"
    /\ std_status' = 200
    /\ std_pc' = "responded"
    /\ UNCHANGED <<std_results, std_max_results, std_contents, std_exception>>
    /\ UNCHANGED <<proVars, embVars, rptVars, chunkVars, cacheVars, runVars, streamVars>>

\* ai_service.generate_report raises.
StandardGenerationFails ==
    /\ std_pc = "generating"
    /\ std_exception' = "Exception"
    /\ std_pc' = "except"
    /\ UNCHANGED <<std_results, std_max_results, std_contents, std_status>>
    /\ UNCHANGED <<proVars, embVars, rptVars, chunkVars, cacheVars, runVars, streamVars>>

\* "except Exception as e" of generate_research: whatever was raised inside
\* the try, HTTPException included, is answered with HTTPException(500).
ExceptException ==
    /\ std_pc = "except"
    /\ std_status' = 500
    /\ std_pc' = "responded"
    /\ UNCHANGED <<std_results, std_max_results, std_contents, std_exception>>
    /\ UNCHANGED <<proVars, embVars, rptVars, chunkVars, cacheVars, runVars, streamVars>>

StandardNext ==
    \/ SearchReturns
    \/ ExtractContents
    \/ StandardResponds
    \/ StandardGenerationFails
    \/ ExceptException

InitStandard == StandardInit /\ ProIdle /\ EmbIdle /\ ReportIdle /\ ChunkIdle /\ CacheIdle /\ RunIdle /\ StreamIdle

SpecStandard == InitStandard /\ [][StandardNext]_vars

\* ------------------------------------------------------------------ claims

\* The sub-queries inside "async with semaphore": in the callback or in the
\* synthesis pipeline (the embedding, the generation and their retries).
InFlight == {i \in TaskIds : task_pc[i] \in {"callback", "embedding", "generating"}}

\* The summarization calls in flight.
Summarizing == {i \in TaskIds : sum_pc[i] = "calling"}

\* C1: at every moment of a request at most max_concurrent_requests (3)
\* sub-queries are executing the synthesis pipeline, whatever the length of
\* the plan, and at most as many summarization calls of the degrade path
\* are in flight.
C1_ConcurrencyCap ==
    /\ Cardinality(InFlight) <= max_concurrent_requests
    /\ Cardinality(Summarizing) <= max_concurrent_requests

\* The plan is longer than the cap, the cap is reached and a sub-query waits.
C1_Witness ==
    /\ total_queries > max_concurrent_requests
    /\ Cardinality(InFlight) = max_concurrent_requests
    /\ waiters # <<>>

\* C2: the research plan of a pro-mode request never has more entries than
\* the max_questions the request configured, even when the planner model
\* returns more items.
C2_PlanWithinRequestMaxQuestions ==
    Len(search_queries) <= request_max_questions

\* The orchestrator is past the fan-out: gather has returned.
PastFanout == pc \in {"gathered", "callback_80", "compile", "compiling", "summarizing",
                      "compiling_summarized", "compiled", "callback_100", "returned"}

\* C3: on every successful run sub_reports has exactly one entry per plan
\* entry and sub_reports[i].query = research_plan[i] for every i, whatever
\* the order in which the sub-queries complete.
C3_SubReportsInPlanOrder ==
    /\ PastFanout =>
          /\ Len(sub_reports) = Len(search_queries)
          /\ \A j \in 1..Len(sub_reports) : sub_reports[j].query = search_queries[j]
    /\ pc = "returned" =>
          /\ Len(result.sub_reports) = Len(result.research_plan)
          /\ \A j \in 1..Len(result.sub_reports) :
                result.sub_reports[j].query = result.research_plan[j]

\* A run has returned although a sub-query finished before an earlier one.
C3_Witness ==
    /\ pc = "returned"
    /\ overtaken
    /\ Len(result.sub_reports) >= 2

\* C4: _get_all_embeddings(texts) returns exactly len(texts) vectors, the
\* i-th being the embedding of texts[i], for every order in which the embed
\* calls complete.
C4_EmbeddingsInInputOrder ==
    emb_pc = "returned" =>
       /\ Len(embeddings) = Len(texts)
       /\ \A j \in 1..Len(texts) : embeddings[j] = ProviderEmbedding(texts[j])

\* The call has returned for different texts whose embed calls completed in
\* an order other than the input order.
C4_Witness ==
    /\ emb_pc = "returned"
    /\ Len(texts) >= 2
    /\ texts[1] # texts[2]
    /\ emb_done_order # UpTo(Len(texts))

\* The error texts that contain the words "maximum context length", in
\* whatever letter case.
SaysMaximumContextLength(text) ==
    text \in {"This model's maximum context length is 8192 tokens",
              "MAXIMUM CONTEXT LENGTH EXCEEDED"}

\* The call-th compilation call has failed.
CompilationFailed(call) ==
    /\ Len(compilations) >= call
    /\ compilations[call].outcome \notin {"pending", "ok"}

\* The summaries of the sub-reports, in their order.
ExpectedSummaries ==
    [j \in 1..Len(sub_reports) |-> [query |-> sub_reports[j].query,
                                    content |-> SummaryText(sub_reports[j].content)]]

\* C5: when the first compilation call fails with an error whose text
\* contains "maximum context length", the orchestrator goes on to summarize
\* (that error is not raised), every sub-report is summarized exactly once
\* before the second compilation call, whose prompt is built from the
\* summaries, and when that call succeeds its text is the final_report
\* returned, without an error.
C5_DegradePath ==
    (CompilationFailed(1) /\ SaysMaximumContextLength(compilations[1].outcome)) =>
       /\ pc \in {"summarizing", "compiling_summarized", "compiled", "callback_100",
                  "returned", "raised"}
       /\ pc = "raised" =>
             \/ sum_exception # ""
             \/ Len(compilations) = 2 /\ compilations[2].outcome = error
       /\ \A i \in TaskIds : sum_calls[i] <= 1
       /\ Len(compilations) = 2 =>
             /\ \A i \in Indices(Len(sub_reports)) : sum_calls[i] = 1
             /\ compilations[2].content = PrepareCompilationContent(ExpectedSummaries)
       /\ (Len(compilations) = 2 /\ compilations[2].outcome = "ok") =>
             /\ pc \in {"compiled", "callback_100", "returned"}
             /\ error = ""
             /\ final_report = CompilationText(compilations[2].content)
             /\ pc = "returned" => result.final_report = final_report

\* A run has returned the report compiled from the summaries of several
\* sub-reports.
C5_Witness ==
    /\ pc = "returned"
    /\ Len(compilations) = 2
    /\ SaysMaximumContextLength(compilations[1].outcome)
    /\ Len(sub_reports) >= 2
    /\ result.final_report = CompilationText(PrepareCompilationContent(ExpectedSummaries))

\* C6: compilation is retried at most once: a request makes at most two
\* compilation calls and summarizes a report at most once; a failure of the
\* second compilation call, a context-length error included, is raised to
\* the caller, and after the failure of a summarization call no second
\* compilation call is made and nothing is returned.
C6_RetryOnce ==
    /\ Len(compilations) <= 2
    /\ \A i \in TaskIds : sum_calls[i] <= 1
    /\ CompilationFailed(2) =>
          /\ pc = "raised"
          /\ error = compilations[2].outcome
    /\ (\E i \in TaskIds : sum_pc[i] = "failed") =>
          /\ pc \in {"summarizing", "raised"}
          /\ pc = "raised" => error = SummaryErrorText
          /\ Len(compilations) = 1
          /\ final_report = <<>>
          /\ result = NoResult

\* The second compilation call has failed with another context-length error.
C6_Witness ==
    /\ CompilationFailed(2)
    /\ SaysMaximumContextLength(compilations[2].outcome)
    /\ pc = "raised"

\* C7: a compilation failure whose error text does not contain "maximum
\* context length" is raised to the caller of generate_comprehensive_report,
\* with no summarization call and no second compilation call.
C7_OtherFailurePropagates ==
    (CompilationFailed(1) /\ ~SaysMaximumContextLength(compilations[1].outcome)) =>
       /\ pc = "raised"
       /\ error = compilations[1].outcome
       /\ Len(compilations) = 1
       /\ \A i \in TaskIds : sum_calls[i] = 0 /\ sum_pc[i] = "none"
       /\ result = NoResult

\* The first compilation call of a plan of several queries has failed with
\* an error of another kind.
C7_Witness ==
    /\ CompilationFailed(1)
    /\ compilations[1].outcome = "Rate limit reached"
    /\ Len(sub_reports) >= 2
    /\ pc = "raised"

\* The phase of the request the orchestrator is in.
Phase ==
    CASE pc \in {"request", "idle"} -> "NEW"
      [] pc \in {"start", "callback_0", "planning", "planned", "callback_10"} -> "PLANNING"
      [] pc \in {"fanout", "gathering", "gathered"} -> "EXECUTING"
      [] pc \in {"callback_80", "compile", "compiling"} -> "COMPILING"
      [] pc \in {"summarizing", "compiling_summarized"} -> "COMPILING_DEGRADED"
      [] pc \in {"compiled", "callback_100", "returned"} -> "DONE"
      [] OTHER -> "FAILED"

\* The changes of phase the state machine allows; every phase before DONE
\* may end in failure.
PhaseOrder ==
    {<<"NEW", "PLANNING">>, <<"PLANNING", "EXECUTING">>, <<"EXECUTING", "COMPILING">>,
     <<"COMPILING", "DONE">>, <<"COMPILING", "COMPILING_DEGRADED">>,
     <<"COMPILING_DEGRADED", "DONE">>}
    \cup {<<p, "FAILED">> : p \in {"PLANNING", "EXECUTING", "COMPILING", "COMPILING_DEGRADED"}}

\* Every sub-query of the plan has finished with a report.
AllSubQueriesDone == \A i \in Indices(total_queries) : task_pc[i] = "done"

C8_Always ==
    \* no sub-query exists before the planner has returned
    /\ Phase \in {"NEW", "PLANNING"} => \A i \in TaskIds : task_pc[i] = "none"
    \* the 0% event is the first one and precedes the planner call
    /\ (has_callback /\ pc \notin {"request", "start"}) =>
          events # <<>> /\ events[1] = Event("planning", 0, {})
    \* the 10% event, and every later one, follows the planner's return
    /\ pc \in {"request", "start", "callback_0", "planning"} =>
          \A j \in 1..Len(events) : events[j].percent < 10
    /\ (has_callback /\ Phase \in {"EXECUTING", "COMPILING", "COMPILING_DEGRADED", "DONE"}) =>
          Len(events) >= 2 /\ events[2] = Event("planned", 10, {})
    \* compilation starts only after every sub-query has finished
    /\ (Phase \in {"COMPILING", "COMPILING_DEGRADED", "DONE"} \/ compilations # <<>>) =>
          AllSubQueriesDone
    \* DONE only after a successful compilation
    /\ Phase = "DONE" => compilations # <<>> /\ Last(compilations).outcome = "ok"
    \* COMPILING_DEGRADED only after a context-length failure of the first call
    /\ Phase = "COMPILING_DEGRADED" =>
          CompilationFailed(1) /\ SaysMaximumContextLength(compilations[1].outcome)

C8_Step ==
    /\ Phase' # Phase => <<Phase, Phase'>> \in PhaseOrder
    \* the planner is called after the 0% callback has been invoked
    /\ (pc' = "planning" /\ pc # "planning") =>
          (has_callback => events = <<Event("planning", 0, {})>>)
    \* a sub-query starts only while gather runs the tasks (or after it raised)
    /\ \A i \in TaskIds :
          (task_pc[i] \in {"none", "waiting"} /\ task_pc'[i] \notin {"none", "waiting"}) =>
             pc \in {"gathering", "raised"}
    \* a compilation call is made only with every sub-query finished
    /\ Len(compilations') > Len(compilations) => AllSubQueriesDone
    \* COMPILING_DEGRADED is entered from COMPILING, by the failure of the
    \* first compilation call with a context-length error
    /\ (Phase' = "COMPILING_DEGRADED" /\ Phase # "COMPILING_DEGRADED") =>
          /\ pc = "compiling"
          /\ Len(compilations') = 1
          /\ SaysMaximumContextLength(compilations'[1].outcome)
    \* DONE is entered by the success of a compilation call
    /\ (Phase' = "DONE" /\ Phase # "DONE") =>
          Compiling /\ Last(compilations').outcome = "ok"

\* C8: every request passes through PLANNING, EXECUTING, COMPILING, DONE in
\* this order: the 0% event precedes the planner call and the 10% event
\* follows its return, no sub-query starts before the planner has returned,
\* compilation starts only after every sub-query has finished, DONE is
\* reached only after a successful compilation, and COMPILING_DEGRADED is
\* entered only from COMPILING after a context-length failure.
C8_PhaseOrder == []C8_Always /\ [][C8_Step]_vars

\* A request with a callback and several sub-queries has gone through every
\* phase, the degraded one included.
C8_Witness ==
    /\ pc = "returned"
    /\ has_callback
    /\ total_queries >= 2
    /\ Len(compilations) = 2

\* C9: with a progress callback, the percent values of successive callback
\* invocations never decrease and lie in 0..100, and a run that returns a
\* result has made a last invocation with percent 100.
C9_ProgressMonotone ==
    /\ \A j \in 1..Len(events) : events[j].percent \in 0..100
    /\ \A j \in 1..(Len(events) - 1) : events[j].percent <= events[j + 1].percent
    /\ (pc = "returned" /\ has_callback) =>
          events # <<>> /\ Last(events).percent = 100

\* A run with more sub-queries than permits has returned after an event for
\* the plan's start and end, one per sub-query, and those of the compilation.
C9_Witness ==
    /\ pc = "returned"
    /\ has_callback
    /\ total_queries > max_concurrent_requests
    /\ Len(events) = total_queries + 4

\* C10: if the synthesis pipeline of a sub-query fails after its retries,
\* generate_comprehensive_report raises: it returns no result, the
\* successful sub-reports included, never starts compilation and never
\* emits the 100% event.
C10_NoPartialSuccess ==
    (\E i \in TaskIds : task_pc[i] = "failed") =>
       /\ pc \in {"gathering", "raised"}
       /\ pc = "raised" => error = RetryErrorText
       /\ sub_reports = <<>>
       /\ compilations = <<>>
       /\ final_report = <<>>
       /\ result = NoResult
       /\ \A j \in 1..Len(events) : events[j].phase \notin {"compiling", "complete"}
       /\ \A j \in 1..Len(events) : events[j].percent # 100

\* The request has raised although a sub-query had produced its report.
C10_Witness ==
    /\ pc = "raised"
    /\ \E i \in TaskIds : task_pc[i] = "failed"
    /\ \E i \in TaskIds : task_pc[i] = "done"

\* The sub-queries awaiting an external provider call.
InProviderCall == {i \in TaskIds : task_pc[i] \in {"embedding", "generating"}}

\* process_query tasks exist: the fan-out has made its semaphore.
FanoutStarted == \E i \in TaskIds : task_pc[i] # "none"

\* A provider call of sub-query i ends in this step: its attempt returns or
\* fails.
CallEnds(i) ==
    /\ task_pc[i] \in {"embedding", "generating"}
    /\ task_pc'[i] # task_pc[i] \/ attempt'[i] # attempt[i]

\* C11 as the specification states it: a permit is taken just before and
\* given back just after a single external provider call, so that permits
\* are out only for provider calls in flight (never during a progress
\* callback), and the end of every provider call gives a permit back (never
\* held from one call of the pipeline to the next, or from one attempt to
\* the next).
C11_PermitAroundSingleCall ==
    /\ [](FanoutStarted =>
            max_concurrent_requests - semaphore <= Cardinality(InProviderCall))
    /\ [][\A i \in TaskIds : CallEnds(i) => semaphore' > semaphore]_vars

\* C11 as the code has it: a sub-query holds its permit of the fan-out
\* semaphore from before its progress callback until its whole pipeline
\* (the embedding, the generation and all their attempts) has returned or
\* raised, and the permit of the embedding semaphore is held across all the
\* attempts of one text's _get_embedding call.
C11_PermitAcrossPipeline ==
    /\ FanoutStarted => max_concurrent_requests - semaphore = Cardinality(InFlight)
    /\ \A i \in TaskIds :
          /\ task_pc[i] = "embedding" =>
                /\ attempt[i] \in 1..MaxAttempts
                /\ query_emb_semaphore[i] = embedding_concurrent_requests - 1
          /\ task_pc[i] # "embedding" =>
                query_emb_semaphore[i] \in {0, embedding_concurrent_requests}

\* Every permit is out: one sub-query awaits its callback, one is at a
\* retry of its embedding and one at the third attempt of its generation.
C11_Witness ==
    /\ semaphore = 0
    /\ \E i \in TaskIds : task_pc[i] = "callback"
    /\ \E i \in TaskIds : /\ task_pc[i] = "embedding"
                          /\ attempt[i] = 2
                          /\ query_emb_semaphore[i] = embedding_concurrent_requests - 1
    /\ \E i \in TaskIds : task_pc[i] = "generating" /\ attempt[i] = MaxAttempts

\* The scheduling C12 assumes: a callback that was invoked returns, a
\* provider call returns or fails, and the event loop runs a coroutine that
\* can go on. Each of these is a step of Next, and none is taken for ever
\* while another could be.
Fairness == WF_vars(Next)

\* The requests of Init with one value of max_questions: no step reads it
\* after HandleRequest has stored it, and the length of the plan is what
\* the planner returns.
InitLive == Init /\ request_max_questions = MaxRequestQuestions

SpecLive == InitLive /\ [][Next]_vars /\ Fairness

\* C12: if every callback invocation returns and every provider call
\* returns or fails, generate_comprehensive_report ends, by returning or by
\* raising, whatever the length of the plan and the interleaving.
C12_Terminates == <>(pc \in {"returned", "raised"})

\* A request with a callback and a plan longer than the cap has returned:
\* sub-queries waited for permits held across callbacks.
C12_Witness ==
    /\ pc = "returned"
    /\ has_callback
    /\ total_queries > max_concurrent_requests
    /\ \A i \in Indices(total_queries) : task_pc[i] = "done"

\* C15: embed_all is all or nothing: once the embed call of any text has
\* failed after its retries, _get_all_embeddings never returns and hands
\* out no vectors, those of the texts that succeeded included; it raises.
C15_AllOrNothing ==
    /\ (\E i \in TextIds : text_pc[i] = "failed") =>
          /\ emb_pc \in {"gathering", "raised"}
          /\ emb_exception = RetryErrorText
          /\ embeddings = <<>>
    /\ emb_pc = "raised" => \E i \in TextIds : text_pc[i] = "failed"

\* _get_all_embeddings has raised although another text had its embedding.
C15_Witness ==
    /\ emb_pc = "raised"
    /\ \E i \in TextIds : text_pc[i] = "failed"
    /\ \E i \in TextIds : text_pc[i] = "done"

\* C13: a generation call whose provider fails on the first two attempts is
\* called a third time, and when that call succeeds its completion is what
\* generate_report returns, after exactly three provider calls.
C13_RetryThenSucceed ==
    /\ gen_outcomes = <<"failed", "failed">> =>
          /\ rpt_pc = "generating"
          /\ provider_calls = 3
          /\ rpt_error = ""
    /\ gen_outcomes = <<"failed", "failed", "returned">> =>
          /\ rpt_pc = "returned"
          /\ response = ProviderCompletion(3)
          /\ provider_calls = 3
          /\ rpt_error = ""

\* The third attempt has succeeded and generate_report has returned.
C13_Witness ==
    /\ rpt_pc = "returned"
    /\ gen_outcomes = <<"failed", "failed", "returned">>

\* C14: a generation call whose provider fails on all three attempts ends
\* with a failure raised by generate_report after exactly three provider
\* calls; no fourth call is ever made, and a call that raises returns
\* nothing, neither an empty string nor another value.
C14_RetryExhaustion ==
    /\ provider_calls <= 3
    /\ gen_outcomes = <<"failed", "failed", "failed">> =>
          /\ rpt_pc = "raised"
          /\ rpt_error # ""
          /\ provider_calls = 3
    /\ rpt_pc = "raised" => response = ""
    /\ rpt_pc = "returned" =>
          /\ Last(gen_outcomes) = "returned"
          /\ response = ProviderCompletion(provider_calls)
          /\ response # ""

\* Three provider calls have failed and generate_report has raised.
C14_Witness ==
    /\ rpt_pc = "raised"
    /\ gen_outcomes = <<"failed", "failed", "failed">>
    /\ provider_calls = 3

\* _rerank_chunks_with_embeddings has returned: the chunks are ranked and
\* the context is built.
Ranked == provider_calls > 0

\* The overhead reserve of the context budget (1100).
OverheadReserve == system_prompt_tokens + BufferTokens

\* The context of the first k used chunks, and the sum of their estimates.
PrefixContext(k) == Join([j \in 1..k |-> ChunkText(used_chunks[j])], "\n")

RECURSIVE PrefixTokens(_)
PrefixTokens(k) == IF k = 0 THEN 0 ELSE PrefixTokens(k - 1) + ChunkTokens(used_chunks[k])

\* C16 as the specification states it: the estimated token count of the
\* context, its length divided by 4 (rounded down here, which favours the
\* claim), never exceeds MAX_INPUT_TOKENS less the overhead reserve.
C16_ContextWithinBudget ==
    Ranked => Len(context) \div CharsPerToken <= max_input_tokens - OverheadReserve

\* C16 as the code has it: the budget bounds the sum of the estimates of
\* the included records, each rounded down on its own, and not the estimate
\* of the joined string. With a budget that is not negative that sum never
\* exceeds the budget and the length of the context stays below four times
\* the budget plus four characters for each included chunk; with a negative
\* budget the context is empty.
C16_EstimatesWithinBudget ==
    Ranked =>
       LET budget == max_input_tokens - OverheadReserve
       IN  \E k \in 0..Len(used_chunks) :
              /\ context = PrefixContext(k)
              /\ budget < 0 => k = 0
              /\ budget >= 0 => PrefixTokens(k) <= budget
              /\ k > 0 => Len(context) < CharsPerToken * (budget + k)

\* Two records of 31 characters, 7 tokens each, fill a budget of 14; the
\* context of 63 characters is estimated at 15 tokens.
C16_Witness ==
    /\ Ranked
    /\ max_input_tokens - OverheadReserve >= 0
    /\ Len(used_chunks) = 2
    /\ context = PrefixContext(2)
    /\ PrefixTokens(2) = max_input_tokens - OverheadReserve
    /\ Len(context) \div CharsPerToken > max_input_tokens - OverheadReserve

\* C17: the context holds a prefix of the ranked list cut to max_chunks, in
\* rank order: every chunk before the first one that would exceed the
\* budget, and none after it, even one that would fit.
C17_ContextIsRankedPrefix ==
    Ranked =>
       LET budget == max_input_tokens - OverheadReserve
       IN  /\ used_chunks = SubSeq(ranked_chunks, 1, Min(max_chunks, Len(ranked_chunks)))
           /\ \E k \in 0..Len(used_chunks) :
                 /\ context = PrefixContext(k)
                 /\ PrefixTokens(k) <= budget \/ k = 0
                 /\ k < Len(used_chunks) => PrefixTokens(k + 1) > budget

\* The second of three used chunks does not fit, and the third, which would
\* fit after the first, is left out with it.
C17_Witness ==
    /\ Ranked
    /\ Len(used_chunks) = 3
    /\ context = PrefixContext(1)
    /\ PrefixTokens(2) > max_input_tokens - OverheadReserve
    /\ ChunkTokens(used_chunks[1]) + ChunkTokens(used_chunks[3])
          <= max_input_tokens - OverheadReserve

\* C18 as the specification states it: reranking an empty chunk list
\* returns an empty list without a call to the embedding provider: no text
\* is handed to _get_all_embeddings and no embedding is awaited.
C18_EmptyRerankCallsNoProvider ==
    chunks = <<>> =>
       /\ all_texts = <<>>
       /\ rpt_pc # "embedding"
       /\ ranked_chunks = <<>>

\* The similarity to the query of the chunk at the (0-based) index i.
SimilarityOf(i) ==
    cosine_similarity(ProviderEmbedding(query), ProviderEmbedding(chunks[i + 1].content))

\* The place of the input index i in the ranking.
RankOf(i) == CHOOSE k \in 1..Len(ranked_indices) : ranked_indices[k] = i

\* C19: the output of _rerank_chunks_with_embeddings is a permutation of
\* the input chunks (each input index exactly once, the chunk of that index
\* at its place) in an order of non-increasing cosine similarity to the
\* query (embeddings being non-zero vectors).
C19_PermutationBySimilarity ==
    Ranked =>
       /\ Len(ranked_indices) = Len(chunks)
       /\ Range(ranked_indices) = Indices(Len(chunks))
       /\ Len(ranked_chunks) = Len(chunks)
       /\ \A k \in 1..Len(chunks) : ranked_chunks[k] = chunks[ranked_indices[k] + 1]
       /\ \A k \in 1..(Len(chunks) - 1) :
             ~SimilarityLess(SimilarityOf(ranked_indices[k]),
                             SimilarityOf(ranked_indices[k + 1]))

\* Three chunks of three different similarities, given in rising order,
\* have been ranked.
C19_Witness ==
    /\ Ranked
    /\ Len(chunks) = 3
    /\ SimilarityLess(SimilarityOf(0), SimilarityOf(1))
    /\ SimilarityLess(SimilarityOf(1), SimilarityOf(2))
    /\ ranked_indices = <<2, 1, 0>>

\* C20 as the specification states it: two chunks of equal similarity keep
\* their input order in the ranking: for i < j of equal similarity, chunk i
\* precedes chunk j.
C20_TiesKeepInputOrder ==
    Ranked =>
       \A i, j \in Indices(Len(chunks)) :
          (/\ i < j
           /\ ~SimilarityLess(SimilarityOf(i), SimilarityOf(j))
           /\ ~SimilarityLess(SimilarityOf(j), SimilarityOf(i)))
             => RankOf(i) < RankOf(j)

\* The contents of the entries process_contents made for document k.
EmittedOf(k) ==
    LET entries == SelectSeq(processed_contents, LAMBDA entry : entry.url = contents[k].url)
    IN  [j \in 1..Len(entries) |-> entries[j].content]

\* C21: every chunk process_contents emits has a content of at least
\* min_chunk_length characters and is not empty; a chunk shorter than that
\* is not emitted, and a document with empty content yields no chunk.
C21_ChunksLongEnough ==
    chk_pc = "returned" =>
       /\ \A j \in 1..Len(processed_contents) :
             /\ Len(processed_contents[j].content) >= min_chunk_length
             /\ processed_contents[j].content # <<>>
       /\ \A k \in 1..Len(contents) :
             /\ contents[k].content = <<>> => EmittedOf(k) = <<>>
             /\ \A c \in Range(text_chunks[k]) :
                   Len(c) < min_chunk_length => c \notin Range(EmittedOf(k))

\* One document has no content, another one has a chunk that was emitted
\* and one that was too short.
C21_Witness ==
    /\ chk_pc = "returned"
    /\ \E k \in 1..Len(contents) : contents[k].content = <<>>
    /\ \E k \in 1..Len(contents) :
          /\ EmittedOf(k) # <<>>
          /\ \E c \in Range(text_chunks[k]) : Len(c) < min_chunk_length

\* C22 as the specification states it: no chunk of split_text_into_chunks
\* is longer than chunk_size, but a chunk that is one word (no space in it)
\* longer than chunk_size.
C22_ChunkWithinSize ==
    chk_pc = "split" =>
       \A k \in 1..Len(contents) : \A c \in Range(text_chunks[k]) :
          Len(c) <= chunk_size \/ \A j \in 1..Len(c) : ~IsSpace(c[j])

\* C23 as the specification states it: an empty or whitespace-only text
\* gives an empty sequence of chunks.
C23_EmptyTextNoChunks ==
    chk_pc = "split" =>
       \A k \in 1..Len(contents) :
          CleanText(contents[k].content) = <<>> => text_chunks[k] = <<>>

\* The chunks of document k that are long enough for process_contents.
KeptOf(k) == SelectSeq(text_chunks[k], LAMBDA c : Len(c) >= min_chunk_length)

\* C24: the chunks of split_text_into_chunks, joined in order with single
\* spaces, are the whitespace-normalized text, and process_contents emits,
\* in order, those chunks but the ones shorter than min_chunk_length.
C24_NothingLost ==
    /\ chk_pc \in {"split", "returned"} =>
          \A k \in 1..Len(contents) :
             JoinWithSpace(text_chunks[k]) = CleanText(contents[k].content)
    /\ chk_pc = "returned" =>
          \A k \in 1..Len(contents) : EmittedOf(k) = KeptOf(k)

\* A text the normalization changes is split into two chunks or more, and
\* process_contents drops some of them.
C24_Witness ==
    /\ chk_pc = "returned"
    /\ \E k \in 1..Len(contents) :
          /\ CleanText(contents[k].content) # contents[k].content
          /\ Len(text_chunks[k]) >= 2
          /\ Len(EmittedOf(k)) < Len(text_chunks[k])

\* Where the j-th of the chunks cs starts in the normalized text when the
\* chunks follow one another with one space between them.
RECURSIVE Offset(_, _)
Offset(cs, j) == IF j = 1 THEN 1 ELSE Offset(cs, j - 1) + Len(cs[j - 1]) + 1

\* The chunk c is the segment of the text t that starts at position o.
SegmentAt(t, o, c) ==
    /\ o + Len(c) - 1 <= Len(t)
    /\ SubSeq(t, o, o + Len(c) - 1) = c

RECURSIVE PiecesFrom(_, _, _)
PiecesFrom(c, i, piece) ==
    IF i > Len(c) THEN <<piece>>
    ELSE IF i < Len(c) /\ c[i] = "." /\ c[i + 1] = " "
         THEN <<piece>> \o PiecesFrom(c, i + 2, <<>>)
         ELSE PiecesFrom(c, i + 1, Append(piece, c[i]))

\* current_chunk.split(". ")[-3:]
LastSentences(c) ==
    LET pieces == PiecesFrom(c, 1, <<>>)
    IN  SubSeq(pieces, IF Len(pieces) > 3 THEN Len(pieces) - 2 ELSE 1, Len(pieces))

\* sentence in next_chunk
Appears(sentence, c) ==
    \E o \in 1..(Len(c) - Len(sentence) + 1) : SubSeq(c, o, o + Len(sentence) - 1) = sentence

\* C26 as the specification states it: of two adjacent chunks
\* process_contents made of one document, the later one contains one of
\* the last three (non-empty) sentences of the earlier one.
C26_AdjacentChunksOverlap ==
    chk_pc = "returned" =>
       \A j \in 1..(Len(processed_contents) - 1) :
          processed_contents[j].url = processed_contents[j + 1].url =>
             \E sentence \in Range(LastSentences(processed_contents[j].content)) :
                /\ sentence # <<>>
                /\ Appears(sentence, processed_contents[j + 1].content)

\* C27: when the planner response parses into more than max_questions
\* items, generate_research_plan returns max_questions sub-queries, the
\* first max_questions parsed items in their order, and that plan is the
\* research_plan of the result.
C27_PlanTruncated ==
    Len(parsed) > planner_max_questions =>
       /\ Len(search_queries) = planner_max_questions
       /\ \A j \in 1..planner_max_questions : search_queries[j] = parsed[j]
       /\ pc = "returned" => result.research_plan = search_queries

\* A request has returned whose planner response held more items than the
\* planner keeps.
C27_Witness ==
    /\ pc = "returned"
    /\ Len(parsed) > planner_max_questions
    /\ Len(result.research_plan) = planner_max_questions

\* The orchestrator is executing the sub-queries or compiling their reports.
ExecutingOrCompiling ==
    pc \in {"fanout", "gathering", "gathered", "callback_80", "compile", "compiling",
            "summarizing", "compiling_summarized", "compiled", "callback_100", "returned"}

\* C28 as the specification states it: the plan the orchestrator executes
\* and compiles has at least MinRequestQuestions (2) entries, and a plan
\* without entries makes the request fail.
C28_PlanAtLeastTwo ==
    ExecutingOrCompiling => Len(search_queries) >= MinRequestQuestions

\* C29: generate_report(query, []) ranks nothing, builds the empty context
\* and still calls the generation provider with the prompt of that empty
\* context; it returns the provider's text, and raises only after the
\* embedding call (of the query) or MaxAttempts generation calls failed.
C29_EmptyChunksStillGenerate ==
    chunks = <<>> =>
       /\ Ranked =>
             /\ ranked_chunks = <<>>
             /\ used_chunks = <<>>
             /\ context = ""
             /\ prompt = create_report_prompt(query, "")
       /\ rpt_pc = "returned" =>
             /\ Ranked
             /\ response = ProviderCompletion(provider_calls)
             /\ rpt_error = ""
       /\ rpt_pc = "raised" =>
             \/ all_texts = <<query>> /\ ~Ranked
             \/ /\ Len(gen_outcomes) = MaxAttempts
                /\ \A j \in 1..MaxAttempts : gen_outcomes[j] = "failed"

\* A call without chunks has returned the text of the provider, whose
\* first call had failed.
C29_Witness ==
    /\ chunks = <<>>
    /\ rpt_pc = "returned"
    /\ gen_outcomes = <<"failed", "returned">>
    /\ response # ""

\* C30 as the specification states it: two get_report or set_report calls
\* use the same key exactly when their queries are identical and their URL
\* lists hold the same URLs, in whatever order (one list is the other
\* rearranged).
C30_KeyIdentifiesQueryAndUrlSet ==
    \A i, j \in 1..Len(cache_calls) :
       cache_calls[i].key = cache_calls[j].key
          <=> /\ cache_calls[i].query = cache_calls[j].query
              /\ Sorted(cache_calls[i].urls) = Sorted(cache_calls[j].urls)

\* C31 as the specification states it: when generate_report raises after
\* the attempts of an embedding or generation call are used up, the error
\* raised is the provider's error of the last failed attempt.
C31_UnderlyingErrorReachesCaller ==
    rpt_pc = "raised" => rpt_error = provider_error

\* The error of the last compilation call is a transient provider error.
TransientCompilationFailure ==
    /\ compilations # <<>>
    /\ Last(compilations).outcome = "Rate limit reached"

\* C32 as the specification states it: the request fails on a transient
\* error of the compilation call only after MaxAttempts (3) attempts of
\* that call, with the same prompt, have failed, and a summarization call
\* fails only after as many attempts.
C32_CompilationRetried ==
    /\ (pc = "raised" /\ TransientCompilationFailure) =>
          /\ Len(compilations) >= MaxAttempts
          /\ \A j \in (Len(compilations) - MaxAttempts + 1)..Len(compilations) :
                /\ CompilationFailed(j)
                /\ compilations[j].content = Last(compilations).content
    /\ \A i \in TaskIds : sum_pc[i] = "failed" => sum_calls[i] = MaxAttempts

\* The sub-query whose execution-phase event carries the percent p.
QueryOfPercent(p) == CHOOSE i \in Indices(total_queries) : Progress(i, total_queries) = p

\* C33 as the specification states it: the event with the percent
\* 10 + (i+1)*70/N of sub-query i is emitted after the report of
\* sub-query i has been produced, once.
C33_ProgressAfterCompletion ==
    /\ \A j \in 1..Len(events) :
          events[j].phase = "researching" => task_pc[QueryOfPercent(events[j].percent)] = "done"
    /\ \A j, k \in 1..Len(events) :
          (events[j].phase = "researching" /\ events[j].percent = events[k].percent) => j = k

\* C34 as the specification states it: the active set is the set of the
\* sub-queries holding a permit, has at most max_concurrent_requests
\* members, and is empty once the fan-out has ended, by gather returning or
\* by gather raising.
C34_ActiveSetEmptyAfterFanout ==
    /\ has_callback => active_queries = InFlight
    /\ Cardinality(active_queries) <= max_concurrent_requests
    /\ (PastFanout \/ pc = "raised") => active_queries = {}

\* With a callback the active set is the set of the sub-queries in flight,
\* which hold the permits taken; it is within the cap and empty after a
\* gather that returned.
ActiveSetTracksPermits ==
    /\ has_callback => active_queries = InFlight
    /\ FanoutStarted => semaphore = max_concurrent_requests - Cardinality(InFlight)
    /\ Cardinality(active_queries) <= max_concurrent_requests
    /\ PastFanout => active_queries = {}
    /\ (\A i \in TaskIds : task_pc[i] \in {"none", "done", "failed"}) => active_queries = {}

\* An execution-phase event names the sub-queries in flight when emitted.
EventNamesInFlight ==
    (Len(events') > Len(events) /\ Last(events').phase = "researching")
       => Last(events').active = InFlight'

\* C34, amended: every execution-phase event names exactly the sub-queries
\* in flight at that moment, the active set always equals the set of the
\* sub-queries holding a permit and never exceeds max_concurrent_requests;
\* it is empty once gather has returned, and after a gather that raised
\* only once every sub-query left running has finished.
C34_ActiveSetTracksInFlight ==
    []ActiveSetTracksPermits /\ [][EventNamesInFlight]_vars

\* The request has raised while sub-queries it launched are in flight and
\* named in the active set.
C34_Witness ==
    /\ pc = "raised"
    /\ has_callback
    /\ active_queries # {}
    /\ active_queries = InFlight

\* Every process_query task has returned or raised.
SiblingsEnded == AllFinished(task_pc, total_queries)

\* The step in which gather raises leaves every task as it is.
RaiseLeavesTasks == (pc = "gathering" /\ pc' = "raised") => UNCHANGED fanVars

\* C35: when a sub-query fails, gather raises and leaves the other
\* sub-queries alone: those in flight and those waiting for a permit go on,
\* after generate_comprehensive_report has raised, until each has returned
\* or failed.
C35_SiblingsNotCancelled ==
    [][RaiseLeavesTasks]_vars /\ ((pc = "raised") ~> SiblingsEnded)

\* The request has raised while one sub-query is in flight and another one
\* still waits for its permit: its callback and provider calls are to come.
C35_Witness ==
    /\ pc = "raised"
    /\ has_callback
    /\ error = RetryErrorText
    /\ InFlight # {}
    /\ waiters # <<>>

\* The sub-queries of all the requests awaiting an embedding call, and
\* those awaiting a generation call.
EmbeddingsInFlight ==
    {<<r, i>> \in Runs \X Indices(MaxRunQueries) : run_task_pc[r][i] = "embedding"}

GenerationsInFlight ==
    {<<r, i>> \in Runs \X Indices(MaxRunQueries) : run_task_pc[r][i] = "generating"}

\* C36 as the specification states it: over all the requests running
\* concurrently, at most embedding_concurrent_requests (10) embedding calls
\* and at most max_concurrent_requests (3) sub-query generations are in
\* flight.
C36_ProcessWideCaps ==
    /\ Cardinality(EmbeddingsInFlight) <= embedding_concurrent_requests
    /\ Cardinality(GenerationsInFlight) <= max_concurrent_requests

\* The similarity the specification gives a chunk: 0 where a norm is zero.
ZeroForUndefined(x) == IF IsNaN(x) THEN [dot |-> 0, norms2 |-> 1] ELSE x

\* C37 as the specification states it: a chunk whose similarity is
\* undefined, its embedding or that of the query having norm zero, is
\* ranked as a chunk of similarity 0: below every chunk of greater
\* similarity and above every chunk of smaller similarity.
C37_ZeroNormRankedAsZero ==
    Ranked =>
       \A i, j \in Indices(Len(chunks)) :
          SimilarityLess(ZeroForUndefined(SimilarityOf(j)), ZeroForUndefined(SimilarityOf(i)))
             => RankOf(i) < RankOf(j)

\* The number of used chunks whose record is in the context.
IncludedChunks == CHOOSE k \in 0..Len(used_chunks) : context = PrefixContext(k)

\* C38 as the specification states it: the sources returned are the URLs
\* of the chunks whose record is in the context sent to the model, each
\* once, in rank order of first occurrence; a chunk the token budget
\* dropped gives no source.
C38_SourcesAreOfContext ==
    Ranked =>
       /\ \A j, k \in 1..Len(sources) : sources[j] = sources[k] => j = k
       /\ sources = extract_sources(SubSeq(used_chunks, 1, IncludedChunks))

\* The progress events sent to the client, as the pairs they were made of.
ProgressSent ==
    LET updates == SelectSeq(sent, LAMBDA data : data.kind = "progress")
    IN  [j \in 1..Len(updates) |-> <<updates[j].phase, updates[j].progress>>]

\* C39 as the specification states it: when the stream ends, every pair
\* the orchestrator put on the queue has been sent, in order, before the
\* result or error event, which is the last one; a stream that ends with
\* the result holds the 100% event.
C39_AllProgressSentBeforeFinal ==
    str_pc = "closed" =>
       /\ ProgressSent = SubSeq(StreamProgram(stream_queries), 1, put_count)
       /\ Last(sent).kind \in {"result", "error"}
       /\ \A j \in 1..(Len(sent) - 1) : sent[j].kind = "progress"
       /\ Last(sent).kind = "result" => \E j \in 1..Len(sent) : sent[j].progress = 100

\* The search found nothing, or no result among the first max_results gave
\* content.
NothingToReport ==
    \/ std_results = <<>>
    \/ ExtractedContents(std_results, std_max_results) = <<>>

\* C40 as the specification states it: a standard-mode request with no
\* search results or no extractable content is answered with status 404.
C40_NoContentAnswers404 ==
    std_pc = "responded" /\ NothingToReport => std_status = 404

=============================================================================
